---- MODULE Spec2Model ----
(***************************************************************************)
(* Khmer word segmenter: Unicode cluster normalizer, DP segmenter, rule    *)
(* engine and unknown grouper.                                             *)
(*                                                                         *)
(* Strings are sequences of UTF-16 code units (integers).  Positions in a  *)
(* string are 0-based as in the source: Ch(t, p) is t[p] of the source.    *)
(* Costs are integers in thousandths (the source uses 64-bit floats).      *)
(***************************************************************************)
EXTENDS Integers, Sequences, FiniteSets, TLC

VARIABLES
    words,          \* KhmerSegmenter.words (set of strings)
    maxWordLength,  \* KhmerSegmenter.maxWordLength
    wordCosts,      \* KhmerSegmenter.wordCosts (function: string -> cost)
    defaultCost,    \* KhmerSegmenter.defaultCost
    unknownCost,    \* KhmerSegmenter.unknownCost
    rules,          \* RuleBasedEngine.rules (compiled, priority-sorted list)
    dictionaryContent, \* the dictionaryContent argument of the constructor (lines)
    frequencyData,  \* the frequencyData argument of the constructor (entries)
    rulesData,      \* the rulesData argument the constructor was given
    pc,             \* position of the current call
    text,           \* argument of the current call
    disablePP,      \* disablePostProcessing argument
    norm,           \* text after normalizer.normalize
    renorm,         \* normalize applied to norm (second application)
    dp,             \* DP table of segment(): dp[k+1] = [cost, prev] of position k
    segments,       \* rawSegments / the list applyRules works on
    i,              \* loop index of applyRules
    out,            \* value returned by segment()
    marks,          \* the caller's isUnknown(word) for every returned word
    memo,           \* a caller's record <<text, disable, result>> of an earlier call
    inbox,          \* messages posted to the worker, not yet delivered
    posted,         \* messages the worker has posted, in order
    received,       \* the worker's onmessage events: message and segmenter state
    activeRequestId,   \* activeRequestId of the page
    pendingRequests,   \* keys of the pendingRequests map of the page
    mainRead,       \* number of worker messages the page has handled
    stack,          \* historyManager.stack
    currentIndex,   \* historyManager.currentIndex
    lastOp          \* the last call on historyManager: its argument, and the
                    \* stack and currentIndex it found

vars == <<words, maxWordLength, wordCosts, defaultCost, unknownCost, rules,
          dictionaryContent, frequencyData, rulesData,
          pc, text, disablePP, norm, renorm, dp, segments, i, out, marks, memo,
          inbox, posted, received, activeRequestId, pendingRequests, mainRead,
          stack, currentIndex, lastOp>>

segmenterVars == <<words, maxWordLength, wordCosts, defaultCost, unknownCost, rules>>

\* the arguments the constructor was called with
argVars == <<dictionaryContent, frequencyData, rulesData>>

\* the worker's message channels and the page's request state
workerVars == <<inbox, posted, received, activeRequestId, pendingRequests, mainRead>>

\* no call has been made on historyManager
NoCall == [op |-> "none", state |-> [html |-> <<>>], stack |-> <<>>, currentIndex |-> -1]

\* the undo history of the page
historyVars == <<stack, currentIndex, lastOp>>

-----------------------------------------------------------------------------
(* Code units used as inputs. *)

KA == 6016
DA == 6026
TA == 6031
RO == 6042
OR_LETTER == 6060
AA == 6070
II == 6072
OE == 6078
E_VOWEL == 6081
AU == 6084
NIKAHIT == 6086
MUUSIKATOAN == 6089
COENG == 6098
KHAN == 6100
LEK_TOO == 6103
KHMER_ONE == 6113
ZWSP == 8203
ZWNJ == 8204
ZWJ == 8205
DIGIT_1 == 49
COMMA == 44
DOT == 46
SPACE == 32
LATIN_A == 97

-----------------------------------------------------------------------------
(* String helpers. *)

Ch(t, p) == t[p + 1]

\* t.slice(a, b) for 0 <= a <= b <= t.length
Slice(t, a, b) == SubSeq(t, a + 1, b)

RECURSIVE Join(_)
Join(ss) == IF ss = <<>> THEN <<>> ELSE Head(ss) \o Join(Tail(ss))

MinOf(S) == CHOOSE x \in S : \A y \in S : x <= y

\* All strings over alphabet A of length 0..n
StringsUpTo(A, n) == UNION {[1..k -> A] : k \in 0..n}

-----------------------------------------------------------------------------
(* KhmerNormalizer *)

\* _get_char_type
GetCharType(c) ==
    IF (c >= 6016 /\ c <= 6050) \/ (c >= 6051 /\ c <= 6067) THEN "BASE"
    ELSE IF c = COENG THEN "COENG"
    ELSE IF c \in {6089, 6090} THEN "REGISTER"
    ELSE IF c >= 6070 /\ c <= 6085 THEN "VOWEL"
    ELSE IF (c >= 6086 /\ c <= 6099) \/ c = 6109 THEN "SIGN"
    ELSE "OTHER"

\* text.replace(/[\u200b\u200c\u200d]/, '') without the g flag: only the first
\* zero-width character is removed
StripZWFirst(t) ==
    LET hits == {k \in 1..Len(t) : t[k] \in {ZWSP, ZWNJ, ZWJ}}
    IN  IF hits = {} THEN t
        ELSE SubSeq(t, 1, MinOf(hits) - 1) \o SubSeq(t, MinOf(hits) + 1, Len(t))

\* text.replace(/[\u200b\u200c\u200d]/g, '')
StripZW(t) == SelectSeq(t, LAMBDA c : c \notin {ZWSP, ZWNJ, ZWJ})

\* String.prototype.replace with a string pattern of two code units <<a, b>>:
\* only the first occurrence is replaced.
ReplaceFirst(t, a, b, r) ==
    LET hits == {k \in 1..(Len(t) - 1) : t[k] = a /\ t[k + 1] = b}
    IN  IF hits = {} THEN t
        ELSE LET k == MinOf(hits)
             IN  SubSeq(t, 1, k - 1) \o <<r>> \o SubSeq(t, k + 2, Len(t))

\* Step 1 of normalize: fix composites
FixComposites(t) ==
    ReplaceFirst(ReplaceFirst(t, E_VOWEL, II, OE), E_VOWEL, AA, AU)

\* getPriority inside _sort_cluster, doubled (1 -> 2, 1.5 -> 3, 2 -> 4,
\* 2.5 -> 5, 3 -> 6, 4 -> 8, 5 -> 10)
GetPriority(item) ==
    IF item[1] = COENG THEN
        IF Len(item) = 2 THEN (IF item[2] = RO THEN 4 ELSE 2) ELSE 3
    ELSE IF item[1] \in {6089, 6090} THEN 5
    ELSE IF item[1] >= 6070 /\ item[1] <= 6085 THEN 6
    ELSE IF (item[1] >= 6086 /\ item[1] <= 6099) \/ item[1] = 6109 THEN 8
    ELSE 10

Priorities == <<2, 3, 4, 5, 6, 8, 10>>

\* Array.prototype.sort with the comparator getPriority(a) - getPriority(b):
\* a stable sort of the modifiers by priority.
RECURSIVE StableSortFrom(_, _)
StableSortFrom(mods, k) ==
    IF k > Len(Priorities) THEN <<>>
    ELSE SelectSeq(mods, LAMBDA m : GetPriority(m) = Priorities[k])
         \o StableSortFrom(mods, k + 1)

\* _sort_cluster that sorts the whole list of parts, the first part included
SortClusterWhole(parts) ==
    IF parts = <<>> THEN <<>>
    ELSE Join(StableSortFrom(parts, 1))

\* _sort_cluster: parts[0] stays first, the rest is sorted; returns the string
SortCluster(parts) ==
    IF parts = <<>> THEN <<>>
    ELSE Head(parts) \o Join(StableSortFrom(Tail(parts), 1))

\* The while loop of normalize (Step 2), from index p with the output so far
\* and the open cluster (a list of units).
RECURSIVE ClusterPass(_, _, _, _)
ClusterPass(t, p, result, cluster) ==
    IF p >= Len(t) THEN
        (IF cluster # <<>> THEN result \o SortCluster(cluster) ELSE result)
    ELSE
        LET c == Ch(t, p)
            ctype == GetCharType(c)
        IN  IF ctype = "BASE" THEN
                ClusterPass(t, p + 1,
                            IF cluster # <<>> THEN result \o SortCluster(cluster)
                                              ELSE result,
                            <<(<<c>>)>>)
            ELSE IF ctype = "COENG" THEN
                IF p + 1 < Len(t) /\ GetCharType(Ch(t, p + 1)) = "BASE"
                THEN ClusterPass(t, p + 2, result,
                                 Append(cluster, <<c, Ch(t, p + 1)>>))
                ELSE ClusterPass(t, p + 1, result, Append(cluster, <<c>>))
            ELSE IF ctype \in {"VOWEL", "SIGN", "REGISTER"} THEN
                IF cluster # <<>>
                THEN ClusterPass(t, p + 1, result, Append(cluster, <<c>>))
                ELSE ClusterPass(t, p + 1, Append(result, c), cluster)
            ELSE
                ClusterPass(t, p + 1,
                            Append(IF cluster # <<>>
                                   THEN result \o SortCluster(cluster)
                                   ELSE result, c),
                            <<>>)

\* KhmerNormalizer.normalize
Normalize(t) ==
    IF t = <<>> THEN <<>>
    ELSE ClusterPass(FixComposites(StripZW(t)), 0, <<>>, <<>>)

-----------------------------------------------------------------------------
(* KhmerSegmenter: character predicates *)

\* _isValidSingleBaseChar
IsValidSingleBaseChar(c) ==
    (c >= 6016 /\ c <= 6050) \/ (c >= 6051 /\ c <= 6067)

\* _isKhmerChar
IsKhmerChar(c) == (c >= 6016 /\ c <= 6143) \/ (c >= 6624 /\ c <= 6655)

\* _isDigit on one code unit
IsDigitChar(c) == (c >= 48 /\ c <= 57) \/ (c >= 6112 /\ c <= 6121)

\* _isDigit on a string: every code unit is a digit (true for the empty string)
IsDigit(s) == \A k \in 1..Len(s) : IsDigitChar(s[k])

\* /\p{P}|\p{S}|\p{Z}/u or /\s/ on one code unit, for ASCII, the Khmer block
\* and the Khmer Symbols block (U+200B..U+200D are Cf: no match)
IsPunctSymbolSpace(c) ==
    \/ c = 32 \/ (c >= 9 /\ c <= 13)
    \/ (c >= 33 /\ c <= 47) \/ (c >= 58 /\ c <= 64)
    \/ (c >= 91 /\ c <= 96) \/ (c >= 123 /\ c <= 126)
    \/ (c >= 6100 /\ c <= 6102) \/ (c >= 6104 /\ c <= 6107)
    \/ (c >= 6624 /\ c <= 6655)

\* _isSeparator
IsSeparator(s) ==
    IF Len(s) # 1 THEN FALSE
    ELSE \/ (s[1] >= 6100 /\ s[1] <= 6106)
         \/ s[1] = 6107
         \/ IsPunctSymbolSpace(s[1])

\* _isInvalidSingle
IsInvalidSingle(seg) ==
    /\ Len(seg) = 1
    /\ IsKhmerChar(seg[1])
    /\ ~IsValidSingleBaseChar(seg[1])
    /\ ~IsDigit(seg)
    /\ ~IsSeparator(seg)
    /\ seg \notin words

\* _getKhmerClusterLength: the loop from index p
RECURSIVE ClusterScan(_, _)
ClusterScan(t, p) ==
    IF p >= Len(t) THEN p
    ELSE LET c == Ch(t, p)
         IN  IF c = 6098 THEN
                 IF p + 1 < Len(t) /\ Ch(t, p + 1) >= 6016 /\ Ch(t, p + 1) <= 6050
                 THEN ClusterScan(t, p + 2)
                 ELSE p
             ELSE IF (c >= 6070 /\ c <= 6097) \/ c = 6099 \/ c = 6109
             THEN ClusterScan(t, p + 1)
             ELSE p

\* _getKhmerClusterLength
GetKhmerClusterLength(t, startIndex) ==
    IF startIndex >= Len(t) THEN 0
    ELSE IF ~(Ch(t, startIndex) >= 6016 /\ Ch(t, startIndex) <= 6067) THEN 1
    ELSE ClusterScan(t, startIndex + 1) - startIndex

\* the number loop that stops at every ',' and '.'
RECURSIVE NumberScanDigitsOnly(_, _)
NumberScanDigitsOnly(t, p) ==
    IF p >= Len(t) THEN p
    ELSE IF IsDigitChar(Ch(t, p)) THEN NumberScanDigitsOnly(t, p + 1)
    ELSE p

\* _getNumberLength: the loop from index p
RECURSIVE NumberScan(_, _)
NumberScan(t, p) ==
    IF p >= Len(t) THEN p
    ELSE IF IsDigitChar(Ch(t, p)) THEN NumberScan(t, p + 1)
    ELSE IF Ch(t, p) \in {COMMA, DOT} THEN
        IF p + 1 < Len(t) /\ IsDigitChar(Ch(t, p + 1))
        THEN NumberScan(t, p + 2)
        ELSE p
    ELSE p

\* _getNumberLength
GetNumberLength(t, startIndex) ==
    IF ~IsDigitChar(Ch(t, startIndex)) THEN 0
    ELSE NumberScan(t, startIndex + 1) - startIndex

\* _isAcronymStart
IsAcronymStart(t, index) ==
    IF index + 1 >= Len(t) THEN FALSE
    ELSE IF ~(Ch(t, index) >= 6016 /\ Ch(t, index) <= 6067) THEN FALSE
    ELSE LET clusterLen == GetKhmerClusterLength(t, index)
             dotIndex == index + clusterLen
         IN  IF clusterLen = 0 THEN FALSE
             ELSE dotIndex < Len(t) /\ Ch(t, dotIndex) = DOT

\* the acronym loop that stops after the first cluster and its '.'
AcronymScanOne(t, p) ==
    IF p >= Len(t) THEN p
    ELSE IF ~(Ch(t, p) >= 6016 /\ Ch(t, p) <= 6067) THEN p
    ELSE LET clusterLen == GetKhmerClusterLength(t, p)
             dotIndex == p + clusterLen
         IN  IF clusterLen > 0 /\ dotIndex < Len(t) /\ Ch(t, dotIndex) = DOT
             THEN dotIndex + 1
             ELSE p

\* _getAcronymLength: the loop from index p
RECURSIVE AcronymScan(_, _)
AcronymScan(t, p) ==
    IF p >= Len(t) THEN p
    ELSE IF ~(Ch(t, p) >= 6016 /\ Ch(t, p) <= 6067) THEN p
    ELSE LET clusterLen == GetKhmerClusterLength(t, p)
             dotIndex == p + clusterLen
         IN  IF clusterLen > 0 /\ dotIndex < Len(t) /\ Ch(t, dotIndex) = DOT
             THEN AcronymScan(t, dotIndex + 1)
             ELSE p

\* _getAcronymLength
GetAcronymLength(t, startIndex) == AcronymScan(t, startIndex) - startIndex

-----------------------------------------------------------------------------
(* KhmerSegmenter: construction *)

\* String.prototype.replace with the global regex <<a, b>> -> <<a, r>>
RECURSIVE ReplaceAllPair(_, _, _, _)
ReplaceAllPair(w, a, b, r) ==
    IF Len(w) < 2 THEN w
    ELSE IF w[1] = a /\ w[2] = b
         THEN <<a, r>> \o ReplaceAllPair(SubSeq(w, 3, Len(w)), a, b, r)
         ELSE <<w[1]>> \o ReplaceAllPair(Tail(w), a, b, r)

\* p1 = /(\u17D2\u179A)(\u17D2[^\u179A])/g matches at the head of w
MatchP1(w) ==
    Len(w) >= 4 /\ w[1] = COENG /\ w[2] = RO /\ w[3] = COENG /\ w[4] # RO

\* p2 = /(\u17D2[^\u179A])(\u17D2\u179A)/g matches at the head of w
MatchP2(w) ==
    Len(w) >= 4 /\ w[1] = COENG /\ w[2] # RO /\ w[3] = COENG /\ w[4] = RO

\* w.replace(p1, '$2$1')
RECURSIVE SwapP1(_)
SwapP1(w) ==
    IF w = <<>> THEN <<>>
    ELSE IF MatchP1(w)
         THEN <<w[3], w[4], w[1], w[2]>> \o SwapP1(SubSeq(w, 5, Len(w)))
         ELSE <<w[1]>> \o SwapP1(Tail(w))

\* w.replace(p2, '$2$1')
RECURSIVE SwapP2(_)
SwapP2(w) ==
    IF w = <<>> THEN <<>>
    ELSE IF MatchP2(w)
         THEN <<w[3], w[4], w[1], w[2]>> \o SwapP2(SubSeq(w, 5, Len(w)))
         ELSE <<w[1]>> \o SwapP2(Tail(w))

\* word.includes(<<a, b>>)
IncludesPair(w, a, b) == \E k \in 1..(Len(w) - 1) : w[k] = a /\ w[k + 1] = b

\* _generateVariants
GenerateVariants(word) ==
    LET variants ==
            (IF IncludesPair(word, COENG, TA)
             THEN {ReplaceAllPair(word, COENG, TA, DA)} ELSE {})
            \cup
            (IF IncludesPair(word, COENG, DA)
             THEN {ReplaceAllPair(word, COENG, DA, TA)} ELSE {})
        baseSet == {word} \cup variants
    IN  variants
        \cup {SwapP1(w) : w \in {x \in baseSet : SwapP1(x) # x}}
        \cup {SwapP2(w) : w \in {x \in baseSet : SwapP2(x) # x}}

\* line.trim(): leading and trailing white space removed
RECURSIVE TrimLeft(_)
TrimLeft(s) ==
    IF s # <<>> /\ (s[1] = 32 \/ (s[1] >= 9 /\ s[1] <= 13)) THEN TrimLeft(Tail(s))
    ELSE s

RECURSIVE TrimRight(_)
TrimRight(s) ==
    IF s # <<>> /\ (s[Len(s)] = 32 \/ (s[Len(s)] >= 9 /\ s[Len(s)] <= 13))
    THEN TrimRight(SubSeq(s, 1, Len(s) - 1))
    ELSE s

Trim(s) == TrimRight(TrimLeft(s))

\* the first loop of _loadDictionary without the variants: only the word of
\* each line is added
RECURSIVE AddLinesNoVariants(_, _)
AddLinesNoVariants(lines, acc) ==
    IF lines = <<>> THEN acc
    ELSE LET word == StripZW(Trim(Head(lines)))
         IN  IF word = <<>> THEN AddLinesNoVariants(Tail(lines), acc)
             ELSE IF Len(word) = 1 /\ ~IsValidSingleBaseChar(word[1])
                  THEN AddLinesNoVariants(Tail(lines), acc)
             ELSE AddLinesNoVariants(Tail(lines), acc \cup {word})

\* The first loop of _loadDictionary over the lines: the word set it builds
RECURSIVE AddLines(_, _)
AddLines(lines, acc) ==
    IF lines = <<>> THEN acc
    ELSE LET word == StripZW(Trim(Head(lines)))
         IN  IF word = <<>> THEN AddLines(Tail(lines), acc)
             ELSE IF Len(word) = 1 /\ ~IsValidSingleBaseChar(word[1])
                  THEN AddLines(Tail(lines), acc)
             ELSE AddLines(Tail(lines),
                           acc \cup {word} \cup GenerateVariants(word))

\* word.split("\u17AC"): the parts between the occurrences of the separator
RECURSIVE SplitOn(_, _, _)
SplitOn(w, sep, cur) ==
    IF w = <<>> THEN <<cur>>
    ELSE IF w[1] = sep THEN <<cur>> \o SplitOn(Tail(w), sep, <<>>)
    ELSE SplitOn(Tail(w), sep, Append(cur, w[1]))

\* the filter loop with the compound filter only: words with U+17D7 and words
\* that begin with U+17D2 are not marked
WordsToRemoveCompoundsOnly(ws) ==
    {w \in ws :
        /\ (\E k \in 1..Len(w) : w[k] = OR_LETTER)
        /\ Len(w) > 1
        /\ IF w[1] = OR_LETTER THEN Tail(w) \in ws
           ELSE IF w[Len(w)] = OR_LETTER THEN SubSeq(w, 1, Len(w) - 1) \in ws
           ELSE LET parts == SplitOn(w, OR_LETTER, <<>>)
                IN  \A k \in 1..Len(parts) : parts[k] \in ws \/ parts[k] = <<>>}

\* The filter loop of _loadDictionary: the words it marks for removal
WordsToRemove(ws) ==
    {w \in ws :
        \/ /\ (\E k \in 1..Len(w) : w[k] = OR_LETTER)
           /\ Len(w) > 1
           /\ IF w[1] = OR_LETTER THEN Tail(w) \in ws
              ELSE IF w[Len(w)] = OR_LETTER THEN SubSeq(w, 1, Len(w) - 1) \in ws
              ELSE LET parts == SplitOn(w, OR_LETTER, <<>>)
                   IN  \A k \in 1..Len(parts) : parts[k] \in ws \/ parts[k] = <<>>
        \/ \E k \in 1..Len(w) : w[k] = LEK_TOO
        \/ w[1] = COENG}

\* _loadDictionary: the final word set (content absent or "": nothing loaded)
LoadDictionary(lines) ==
    LET ws == AddLines(lines, {})
    IN  (ws \ WordsToRemove(ws)) \ {<<LEK_TOO>>}

\* the recalculated maxWordLength
MaxLength(ws) ==
    IF ws = {} THEN 0
    ELSE CHOOSE m \in {Len(w) : w \in ws} : \A w \in ws : Len(w) <= m

\* round(1000 * log10(n)) for n = 1..120
Log10Milli == <<
    0, 301, 477, 602, 699, 778, 845, 903, 954, 1000,
    1041, 1079, 1114, 1146, 1176, 1204, 1230, 1255, 1279, 1301,
    1322, 1342, 1362, 1380, 1398, 1415, 1431, 1447, 1462, 1477,
    1491, 1505, 1519, 1531, 1544, 1556, 1568, 1580, 1591, 1602,
    1613, 1623, 1633, 1643, 1653, 1663, 1672, 1681, 1690, 1699,
    1708, 1716, 1724, 1732, 1740, 1748, 1756, 1763, 1771, 1778,
    1785, 1792, 1799, 1806, 1813, 1820, 1826, 1833, 1839, 1845,
    1851, 1857, 1863, 1869, 1875, 1881, 1886, 1892, 1898, 1903,
    1908, 1914, 1919, 1924, 1929, 1934, 1940, 1944, 1949, 1954,
    1959, 1964, 1968, 1973, 1978, 1982, 1987, 1991, 1996, 2000,
    2004, 2009, 2013, 2017, 2021, 2025, 2029, 2033, 2037, 2041,
    2045, 2049, 2053, 2057, 2061, 2064, 2068, 2072, 2076, 2079 >>

\* -Math.log10(count / totalTokens), in thousandths
NegLog10(count, total) == Log10Milli[total] - Log10Milli[count]

MaxOf2(a, b) == IF a >= b THEN a ELSE b

\* The first loop of _loadFrequencies over Object.entries(data):
\* eff is effectiveCounts (a function on the keys set so far), total is totalTokens
RECURSIVE CountLoop(_, _, _)
CountLoop(data, eff, total) ==
    IF data = <<>> THEN [eff |-> eff, total |-> total]
    ELSE LET word == StripZW(Head(data)[1])
             e == MaxOf2(Head(data)[2], 5)
             vs == GenerateVariants(word)
             keys == DOMAIN eff \cup {word} \cup vs
             eff2 == [k \in keys |->
                        IF k = word THEN e
                        ELSE IF k \in DOMAIN eff THEN eff[k]
                        ELSE e]
         IN  CountLoop(Tail(data), eff2, total + e)

\* _loadFrequencies: [wordCosts, defaultCost, unknownCost];
\* data = <<>> stands for no data or an empty object
LoadFrequencies(data) ==
    LET r == CountLoop(data, <<>>, 0)
    IN  IF r.total > 0
        THEN [wordCosts |-> [k \in DOMAIN r.eff |-> NegLog10(r.eff[k], r.total)],
              defaultCost |-> NegLog10(5, r.total),
              unknownCost |-> NegLog10(5, r.total) + 5000]
        ELSE [wordCosts |-> <<>>, defaultCost |-> 10000, unknownCost |-> 20000]

\* getWordCost
GetWordCost(word) ==
    IF word \in DOMAIN wordCosts THEN wordCosts[word]
    ELSE IF word \in words THEN defaultCost
    ELSE unknownCost

-----------------------------------------------------------------------------
(* KhmerSegmenter.segment: the DP *)

\* Infinity
InfCost == 1000000000

\* dp = new Array(n + 1) filled with [Infinity, -1]; dp[0] = [0.0, -1]
InitDP(n) ==
    [k \in 1..(n + 1) |-> IF k = 1 THEN [cost |-> 0, prev |-> -1]
                                   ELSE [cost |-> InfCost, prev |-> -1]]

\* dp[j] = [newCost, p] without the comparison: the last proposal wins
RelaxAlways(d, j, newCost, p) ==
    [d EXCEPT ![j + 1] = [cost |-> newCost, prev |-> p]]

\* if (newCost < dp[j][0]) dp[j] = [newCost, p]
Relax(d, j, newCost, p) ==
    IF newCost < d[j + 1].cost
    THEN [d EXCEPT ![j + 1] = [cost |-> newCost, prev |-> p]]
    ELSE d

\* forceRepair of position p
ForceRepair(t, p) ==
    \/ p > 0 /\ Ch(t, p - 1) = COENG
    \/ Ch(t, p) >= 6070 /\ Ch(t, p) <= 6085

\* 1. Number grouping, else 2. separators
RelaxNumberOrSeparator(t, d, p) ==
    IF IsDigitChar(Ch(t, p))
    THEN Relax(d, p + GetNumberLength(t, p), d[p + 1].cost + 1000, p)
    ELSE IF IsSeparator(<<Ch(t, p)>>)
    THEN Relax(d, p + 1, d[p + 1].cost + 100, p)
    ELSE d

\* 3. Acronyms
RelaxAcronym(t, d, p) ==
    IF IsAcronymStart(t, p)
    THEN Relax(d, p + GetAcronymLength(t, p), d[p + 1].cost + defaultCost, p)
    ELSE d

\* the dictionary loop with j < endLimit instead of j <= endLimit
RECURSIVE RelaxDictionaryShort(_, _, _, _, _)
RelaxDictionaryShort(t, d, p, j, endLimit) ==
    IF j >= endLimit THEN d
    ELSE LET word == Slice(t, p, j)
         IN  RelaxDictionaryShort(t,
                 IF word \in words
                 THEN Relax(d, j, d[p + 1].cost + GetWordCost(word), p)
                 ELSE d,
                 p, j + 1, endLimit)

\* 3. Dictionary match: the loop over j from j to endLimit
RECURSIVE RelaxDictionary(_, _, _, _, _)
RelaxDictionary(t, d, p, j, endLimit) ==
    IF j > endLimit THEN d
    ELSE LET word == Slice(t, p, j)
         IN  RelaxDictionary(t,
                 IF word \in words
                 THEN Relax(d, j, d[p + 1].cost + GetWordCost(word), p)
                 ELSE d,
                 p, j + 1, endLimit)

\* the unknown fallback without its else branch: nothing for a non-Khmer character
RelaxUnknownKhmerOnly(t, d, p) ==
    IF IsKhmerChar(Ch(t, p)) THEN
        LET clusterLen == GetKhmerClusterLength(t, p)
            stepCost == IF clusterLen = 1 /\ ~IsValidSingleBaseChar(Ch(t, p))
                        THEN unknownCost + 10000 ELSE unknownCost
            nextIdx == p + clusterLen
        IN  IF nextIdx <= Len(t)
            THEN Relax(d, nextIdx, d[p + 1].cost + stepCost, p) ELSE d
    ELSE d

\* 4. Unknown fallback
RelaxUnknown(t, d, p) ==
    IF IsKhmerChar(Ch(t, p)) THEN
        LET clusterLen == GetKhmerClusterLength(t, p)
            stepCost == IF clusterLen = 1 /\ ~IsValidSingleBaseChar(Ch(t, p))
                        THEN unknownCost + 10000 ELSE unknownCost
            nextIdx == p + clusterLen
        IN  IF nextIdx <= Len(t)
            THEN Relax(d, nextIdx, d[p + 1].cost + stepCost, p) ELSE d
    ELSE
        IF p + 1 <= Len(t)
        THEN Relax(d, p + 1, d[p + 1].cost + unknownCost, p) ELSE d

\* the body of the DP loop without the forced-repair branch
DPStepNoRepair(t, d, p) ==
    IF d[p + 1].cost = InfCost THEN d
    ELSE
        LET d1 == RelaxNumberOrSeparator(t, d, p)
            d2 == RelaxAcronym(t, d1, p)
            endLimit == IF Len(t) <= p + maxWordLength THEN Len(t)
                        ELSE p + maxWordLength
            d3 == RelaxDictionary(t, d2, p, p + 1, endLimit)
        IN  RelaxUnknown(t, d3, p)

\* The body of the DP loop for position p
DPStep(t, d, p) ==
    IF d[p + 1].cost = InfCost THEN d
    ELSE IF ForceRepair(t, p) THEN
        (IF p + 1 <= Len(t)
         THEN Relax(d, p + 1, d[p + 1].cost + unknownCost + 50000, p) ELSE d)
    ELSE
        LET d1 == RelaxNumberOrSeparator(t, d, p)
            d2 == RelaxAcronym(t, d1, p)
            endLimit == IF Len(t) <= p + maxWordLength THEN Len(t)
                        ELSE p + maxWordLength
            d3 == RelaxDictionary(t, d2, p, p + 1, endLimit)
        IN  RelaxUnknown(t, d3, p)

\* for (let i = 0; i < n; i++) { ... }
RECURSIVE DPLoop(_, _, _)
DPLoop(t, d, p) ==
    IF p >= Len(t) THEN d ELSE DPLoop(t, DPStep(t, d, p), p + 1)

DPTable(t) == DPLoop(t, InitDP(Len(t)), 0)

\* the backtrack continuing from prev - 1 instead of prev
RECURSIVE BacktrackOffByOne(_, _, _)
BacktrackOffByOne(t, d, curr) ==
    IF curr <= 0 THEN <<>>
    ELSE IF d[curr + 1].prev = -1
         THEN Append(BacktrackOffByOne(t, d, curr - 1), Slice(t, curr - 1, curr))
         ELSE Append(BacktrackOffByOne(t, d, d[curr + 1].prev - 1),
                     Slice(t, d[curr + 1].prev, curr))

\* Backtrack: the segments in text order (the source pushes and reverses)
RECURSIVE Backtrack(_, _, _)
Backtrack(t, d, curr) ==
    IF curr <= 0 THEN <<>>
    ELSE IF d[curr + 1].prev = -1
         THEN Append(Backtrack(t, d, curr - 1), Slice(t, curr - 1, curr))
         ELSE Append(Backtrack(t, d, d[curr + 1].prev),
                     Slice(t, d[curr + 1].prev, curr))

-----------------------------------------------------------------------------
(* RuleBasedEngine *)

\* rules.sort((a, b) => (b.priority || 0) - (a.priority || 0)): stable,
\* descending priority
RECURSIVE SortByPriority(_)
SortByPriority(rs) ==
    IF rs = <<>> THEN <<>>
    ELSE LET top == CHOOSE m \in {rs[k].priority : k \in 1..Len(rs)} :
                        \A k \in 1..Len(rs) : rs[k].priority <= m
         IN  SelectSeq(rs, LAMBDA r : r.priority = top)
             \o SortByPriority(SelectSeq(rs, LAMBDA r : r.priority # top))

\* _compileRules.  A rule without a trigger object (type "undefined") makes
\* trigger.type throw, which the outer catch turns into an empty list; a regex
\* that does not compile drops its rule.
CompileRules(ruleList) ==
    IF \E k \in 1..Len(ruleList) : ruleList[k].trigger.type = "undefined"
    THEN <<>>
    ELSE SelectSeq(SortByPriority(ruleList),
                   LAMBDA r : r.trigger.type # "regex" \/ r.trigger.value.ok)

\* trigger.regexObj.test(seg) for a pattern that is a sequence of character
\* classes, anchored at the start
RegexTest(classes, seg) ==
    /\ Len(seg) >= Len(classes)
    /\ \A k \in 1..Len(classes) : seg[k] \in classes[k]

\* 1. Check trigger
TriggerMatches(rule, seg) ==
    IF rule.trigger.type = "exact_match" THEN seg = rule.trigger.value
    ELSE IF rule.trigger.type = "regex"
         THEN RegexTest(rule.trigger.value.classes, seg)
    ELSE IF rule.trigger.type = "complexity_check"
         THEN rule.trigger.value = "is_invalid_single" /\ IsInvalidSingle(seg)
    ELSE FALSE

\* Resolve target: does it name a segment (targetSeg !== null)
HasTarget(check, segs, idx) ==
    IF check.target = "prev" THEN idx > 0
    ELSE IF check.target = "next" THEN idx + 1 < Len(segs)
    ELSE check.target \in {"context", "current"}

TargetSeg(check, segs, idx) ==
    IF check.target = "prev" THEN segs[idx]
    ELSE IF check.target = "next" THEN segs[idx + 2]
    ELSE segs[idx + 1]

\* a check that tests isSeparator(targetSeg) without comparing with check.value
CheckPassesIgnoresValue(check, segs, idx) ==
    IF check.exists /\ ~HasTarget(check, segs, idx) THEN FALSE
    ELSE IF ~HasTarget(check, segs, idx)
         THEN ~(check.check # "none" \/ check.value = "true")
    ELSE IF check.check = "is_separator" THEN
         IsSeparator(TargetSeg(check, segs, idx))
    ELSE IF check.check = "is_isolated" THEN
         LET prevSep == IF idx > 0 THEN IsSeparator(segs[idx]) ELSE TRUE
             nextSep == IF idx + 1 < Len(segs) THEN IsSeparator(segs[idx + 2])
                        ELSE TRUE
         IN  IF prevSep /\ nextSep THEN check.value = "true"
             ELSE check.value = "false"
    ELSE TRUE

\* a check that fails when its kind is neither is_separator nor is_isolated
CheckPassesStrict(check, segs, idx) ==
    IF check.exists /\ ~HasTarget(check, segs, idx) THEN FALSE
    ELSE IF ~HasTarget(check, segs, idx)
         THEN ~(check.check # "none" \/ check.value = "true")
    ELSE IF check.check = "is_separator" THEN
         (IF IsSeparator(TargetSeg(check, segs, idx))
          THEN check.value = "true" ELSE check.value = "false")
    ELSE IF check.check = "is_isolated" THEN
         LET prevSep == IF idx > 0 THEN IsSeparator(segs[idx]) ELSE TRUE
             nextSep == IF idx + 1 < Len(segs) THEN IsSeparator(segs[idx + 2])
                        ELSE TRUE
         IN  IF prevSep /\ nextSep THEN check.value = "true"
             ELSE check.value = "false"
    ELSE FALSE

\* One check of a rule at index idx.  check.check is "none" when absent;
\* check.value is "true", "false" or "none" (absent).
CheckPasses(check, segs, idx) ==
    IF check.exists /\ ~HasTarget(check, segs, idx) THEN FALSE
    ELSE IF ~HasTarget(check, segs, idx)
         THEN ~(check.check # "none" \/ check.value = "true")
    ELSE IF check.check = "is_separator" THEN
         (IF IsSeparator(TargetSeg(check, segs, idx))
          THEN check.value = "true" ELSE check.value = "false")
    ELSE IF check.check = "is_isolated" THEN
         LET prevSep == IF idx > 0 THEN IsSeparator(segs[idx]) ELSE TRUE
             nextSep == IF idx + 1 < Len(segs) THEN IsSeparator(segs[idx + 2])
                        ELSE TRUE
         IN  IF prevSep /\ nextSep THEN check.value = "true"
             ELSE check.value = "false"
    ELSE TRUE

\* 2. Check conditions
ConditionsMet(rule, segs, idx) ==
    \A k \in 1..Len(rule.checks) : CheckPasses(rule.checks[k], segs, idx)

\* 3. Apply action: the action sets ruleApplied
ActionApplies(rule, segs, idx) ==
    IF rule.action = "merge_next" THEN idx + 1 < Len(segs)
    ELSE IF rule.action = "merge_prev" THEN idx > 0
    ELSE rule.action = "keep"

RuleFires(rule, segs, idx) ==
    /\ TriggerMatches(rule, segs[idx + 1])
    /\ ConditionsMet(rule, segs, idx)
    /\ ActionApplies(rule, segs, idx)

\* the rule loop that keeps going after a rule was applied: the last rule of
\* the list that can fire is the one that takes effect
FiringRuleLast(segs, idx) ==
    LET firing == {k \in 1..Len(rules) : RuleFires(rules[k], segs, idx)}
    IN  IF firing = {} THEN 0
        ELSE CHOOSE k \in firing : \A j \in firing : j <= k

\* Index (in the compiled list) of the rule applied at idx; 0 when none
FiringRule(segs, idx) ==
    LET firing == {k \in 1..Len(rules) : RuleFires(rules[k], segs, idx)}
    IN  IF firing = {} THEN 0 ELSE MinOf(firing)

\* merge_next that puts the following token in front: segments[i + 1] + seg
MergeNextSwapped(segs, idx) ==
    SubSeq(segs, 1, idx) \o <<segs[idx + 2] \o segs[idx + 1]>>
    \o SubSeq(segs, idx + 3, Len(segs))

\* segments[i] = seg + segments[i + 1]; segments.splice(i + 1, 1)
MergeNext(segs, idx) ==
    SubSeq(segs, 1, idx) \o <<segs[idx + 1] \o segs[idx + 2]>>
    \o SubSeq(segs, idx + 3, Len(segs))

\* merge_prev that splices segments[i] out without adding it to segments[i - 1]
MergePrevDrops(segs, idx) ==
    SubSeq(segs, 1, idx) \o SubSeq(segs, idx + 2, Len(segs))

\* segments[i - 1] = segments[i - 1] + seg; segments.splice(i, 1)
MergePrev(segs, idx) ==
    SubSeq(segs, 1, idx - 1) \o <<segs[idx] \o segs[idx + 1]>>
    \o SubSeq(segs, idx + 2, Len(segs))

\* the iteration with a merge_prev that forgets segments.splice(i, 1)
ApplyRulesIterationNoSplice(segs, idx) ==
    LET k == FiringRule(segs, idx)
    IN  IF k = 0 THEN [segments |-> segs, i |-> idx + 1]
        ELSE IF rules[k].action = "merge_next"
             THEN [segments |-> MergeNext(segs, idx), i |-> idx]
        ELSE IF rules[k].action = "merge_prev"
             THEN [segments |-> [segs EXCEPT ![idx] = segs[idx] \o segs[idx + 1]],
                   i |-> idx - 1]
        ELSE [segments |-> segs, i |-> idx + 1]

\* One iteration of the while loop of applyRules: [segments, i] afterwards
ApplyRulesIteration(segs, idx) ==
    LET k == FiringRule(segs, idx)
    IN  IF k = 0 THEN [segments |-> segs, i |-> idx + 1]
        ELSE IF rules[k].action = "merge_next"
             THEN [segments |-> MergeNext(segs, idx), i |-> idx]
        ELSE IF rules[k].action = "merge_prev"
             THEN [segments |-> MergePrev(segs, idx), i |-> idx - 1]
        ELSE [segments |-> segs, i |-> idx + 1]

-----------------------------------------------------------------------------
(* KhmerSegmenter.segment: the unknown grouper, and isUnknown *)

\* seg.includes('.')
IncludesDot(seg) == \E k \in 1..Len(seg) : seg[k] = DOT

\* isKnown of the grouper loop
IsKnown(seg) ==
    \/ IsDigitChar(seg[1])
    \/ seg \in words
    \/ Len(seg) = 1 /\ IsValidSingleBaseChar(seg[1])
    \/ IsSeparator(seg)
    \/ IncludesDot(seg) /\ Len(seg) >= 2

\* the grouper flushing the buffer before every unknown token
RECURSIVE GroupLoopNoJoin(_, _, _, _)
GroupLoopNoJoin(segs, k, final, buffer) ==
    IF k > Len(segs) THEN
        (IF buffer # <<>> THEN Append(final, Join(buffer)) ELSE final)
    ELSE LET seg == segs[k]
         IN  IF IsKnown(seg) THEN
                 GroupLoopNoJoin(segs, k + 1,
                                 Append(IF buffer # <<>>
                                        THEN Append(final, Join(buffer)) ELSE final,
                                        seg),
                                 <<>>)
             ELSE IF buffer # <<>>
                  THEN GroupLoopNoJoin(segs, k + 1, Append(final, Join(buffer)),
                                       <<seg>>)
                  ELSE GroupLoopNoJoin(segs, k + 1, final, Append(buffer, seg))

\* the grouper pushing the joined buffer before every known token, also when
\* the buffer is empty
RECURSIVE GroupLoopFlushEmpty(_, _, _, _)
GroupLoopFlushEmpty(segs, k, final, buffer) ==
    IF k > Len(segs) THEN
        (IF buffer # <<>> THEN Append(final, Join(buffer)) ELSE final)
    ELSE LET seg == segs[k]
         IN  IF IsKnown(seg) THEN
                 GroupLoopFlushEmpty(segs, k + 1,
                                     Append(Append(final, Join(buffer)), seg),
                                     <<>>)
             ELSE IF buffer # <<>>
                     /\ IsKhmerChar(buffer[Len(buffer)][1]) # IsKhmerChar(seg[1])
                  THEN GroupLoopFlushEmpty(segs, k + 1, Append(final, Join(buffer)),
                                           <<seg>>)
                  ELSE GroupLoopFlushEmpty(segs, k + 1, final, Append(buffer, seg))

\* The grouper loop over pass2Segments from index k, with finalSegments and
\* unknownBuffer
RECURSIVE GroupLoop(_, _, _, _)
GroupLoop(segs, k, final, buffer) ==
    IF k > Len(segs) THEN
        (IF buffer # <<>> THEN Append(final, Join(buffer)) ELSE final)
    ELSE LET seg == segs[k]
         IN  IF IsKnown(seg) THEN
                 GroupLoop(segs, k + 1,
                           Append(IF buffer # <<>>
                                  THEN Append(final, Join(buffer)) ELSE final,
                                  seg),
                           <<>>)
             ELSE IF buffer # <<>>
                     /\ IsKhmerChar(buffer[Len(buffer)][1]) # IsKhmerChar(seg[1])
                  THEN GroupLoop(segs, k + 1, Append(final, Join(buffer)),
                                 <<seg>>)
                  ELSE GroupLoop(segs, k + 1, final, Append(buffer, seg))

GroupUnknowns(segs) == GroupLoop(segs, 1, <<>>, <<>>)

\* isUnknown without the acronym clause (contains '.' and length >= 2)
IsUnknownNoAcronym(word) ==
    IF word = <<>> THEN FALSE
    ELSE IF word \in words THEN FALSE
    ELSE IF IsDigitChar(word[1]) THEN FALSE
    ELSE IF IsSeparator(word) THEN FALSE
    ELSE IF Len(word) = 1 /\ IsValidSingleBaseChar(word[1]) THEN FALSE
    ELSE TRUE

\* isUnknown
IsUnknown(word) ==
    IF word = <<>> THEN FALSE
    ELSE IF word \in words THEN FALSE
    ELSE IF IsDigitChar(word[1]) THEN FALSE
    ELSE IF IsSeparator(word) THEN FALSE
    ELSE IF Len(word) = 1 /\ IsValidSingleBaseChar(word[1]) THEN FALSE
    ELSE IF IncludesDot(word) /\ Len(word) >= 2 THEN FALSE
    ELSE TRUE

-----------------------------------------------------------------------------
(* Inputs *)

\* longest text over the full alphabet passed to segment()
MaxLen == 3

\* code units the texts are made of
Sigma == {KA, COENG, AA, NIKAHIT, DIGIT_1, DOT, LATIN_A, ZWSP}

\* longest text of bases, dots and digits (acronym chains, digit runs)
MaxChainLen == 5

ChainSigma == {KA, DOT, DIGIT_1}

Texts == StringsUpTo(Sigma, MaxLen) \cup StringsUpTo(ChainSigma, MaxChainLen)

\* dictionary contents, as lists of lines
DictPlain == << <<KA, AA>>, <<KA, KA>>, <<KA>> >>

DictOdd == << <<AA, KA>>, <<KA, NIKAHIT, AA>>, <<LATIN_A, LATIN_A>>, <<NIKAHIT>> >>

DictMixed ==
    << <<KA, DOT>>, <<DIGIT_1, LATIN_A>>, <<KA, COENG, KA>>, <<ZWSP, KA, AA, SPACE>> >>

\* a dictionary with a word made of digits
DictDigits == << <<DIGIT_1, DIGIT_1>>, <<KA>> >>

\* frequency data, as lists of <<word, count>> entries (<<>>: none)
FreqPair == << <<(<<KA, KA>>), 45>>, <<(<<KA>>), 5>> >>

FreqSingle == << <<(<<KA>>), 90>>, <<(<<KA, KA>>), 1>>, <<(<<KA, AA>>), 5>> >>

FreqDigits == << <<(<<DIGIT_1, DIGIT_1>>), 50>>, <<(<<KA>>), 50>> >>

Check(target, exists, check, value) ==
    [target |-> target, exists |-> exists, check |-> check, value |-> value]

Rule(priority, ttype, tvalue, checks, action) ==
    [priority |-> priority, trigger |-> [type |-> ttype, value |-> tvalue],
     checks |-> checks, action |-> action]

\* merge a stranded invalid single character into the previous token
RuleInvalidSingle ==
    Rule(0, "complexity_check", "is_invalid_single",
         <<Check("prev", FALSE, "is_separator", "false")>>, "merge_prev")

\* a token starting with KA swallows the token after it, again and again
RuleKaPrefix ==
    Rule(5, "regex", [ok |-> TRUE, classes |-> <<{KA}>>], <<>>, "merge_next")

\* a dot between two tokens is kept as it is
RuleKeepDot ==
    Rule(10, "exact_match", <<DOT>>, <<Check("next", TRUE, "none", "none")>>, "keep")

\* an isolated Latin letter joins the token before it
RuleLatinPrev ==
    Rule(5, "exact_match", <<LATIN_A>>,
         <<Check("current", FALSE, "is_isolated", "false")>>, "merge_prev")

\* a dot joins the token after it
RuleDotNext ==
    Rule(0, "exact_match", <<DOT>>, <<>>, "merge_next")

\* a regex trigger whose pattern does not compile
RuleBrokenRegex ==
    Rule(10, "regex", [ok |-> FALSE, classes |-> <<>>], <<>>, "merge_next")

\* a rule object without a trigger
RuleNoTrigger ==
    Rule(3, "undefined", "none", <<>>, "keep")

\* a trigger of a type the engine does not know
RuleFuzzy ==
    Rule(20, "fuzzy_match", <<LATIN_A>>, <<>>, "merge_next")

\* a check of a kind the engine does not know, on the previous token
RuleOddCheck ==
    Rule(0, "exact_match", <<LATIN_A>>,
         <<Check("prev", FALSE, "is_word", "true")>>, "merge_next")

\* rule lists
RuleInputs ==
    { <<>>,
      <<RuleInvalidSingle>>,
      <<RuleInvalidSingle, RuleKaPrefix>>,
      <<RuleDotNext, RuleKeepDot, RuleLatinPrev>>,
      <<RuleLatinPrev, RuleDotNext, RuleInvalidSingle>> }

\* constructor arguments <<dictionary lines, frequency data, rules>>:
\* the dictionaries and frequency tables under one rule list, and the rule
\* lists with one dictionary
Configs ==
    {<<d, <<>>, <<RuleInvalidSingle>> >> : d \in {<<>>, DictPlain, DictOdd, DictMixed}}
    \cup
    {<<d, f, <<RuleInvalidSingle>> >> : d \in {<<>>, DictPlain}, f \in {FreqPair, FreqSingle}}
    \cup
    {<<DictPlain, <<>>, r>> : r \in RuleInputs}

-----------------------------------------------------------------------------
(* The segmenter as a state machine *)

\* new KhmerSegmenter(c[1], c[2], c[3]); no call yet
Construct(c) ==
    LET ws == LoadDictionary(c[1])
        f == LoadFrequencies(c[2])
    IN  /\ words = ws
        /\ maxWordLength = MaxLength(ws)
        /\ wordCosts = f.wordCosts
        /\ defaultCost = f.defaultCost
        /\ unknownCost = f.unknownCost
        /\ rules = CompileRules(c[3])
        /\ dictionaryContent = c[1]
        /\ frequencyData = c[2]
        /\ rulesData = c[3]
        /\ pc = "idle"
        /\ text = <<>>
        /\ disablePP = FALSE
        /\ norm = <<>>
        /\ renorm = <<>>
        /\ dp = <<>>
        /\ segments = <<>>
        /\ i = 0
        /\ out = <<>>
        /\ marks = <<>>
        /\ memo = <<>>
        /\ inbox = <<>>
        /\ posted = <<>>
        /\ received = <<>>
        /\ activeRequestId = 0
        /\ pendingRequests = {}
        /\ mainRead = 0
        /\ stack = <<>>
        /\ currentIndex = -1
        /\ lastOp = NoCall

Init == \E c \in Configs : Construct(c)

\* segment() that memoizes in wordCosts the cost of every raw segment it
\* looked up
SegmentCallCaching(t, disable) ==
    /\ pc = "idle"
    /\ text' = t
    /\ disablePP' = disable
    /\ norm' = Normalize(t)
    /\ renorm' = <<>>
    /\ i' = 0
    /\ IF Len(norm') = 0
       THEN /\ dp' = <<>>
            /\ segments' = <<>>
            /\ out' = <<>>
            /\ pc' = "done"
       ELSE /\ dp' = DPTable(norm')
            /\ segments' = Backtrack(norm', dp', Len(norm'))
            /\ IF disable
               THEN out' = segments' /\ pc' = "done"
               ELSE out' = <<>> /\ pc' = "rules"
    /\ wordCosts' = [w \in DOMAIN wordCosts \cup {segments'[k] : k \in 1..Len(segments')} |->
                        GetWordCost(w)]
    /\ UNCHANGED marks
    /\ UNCHANGED <<words, maxWordLength, defaultCost, unknownCost, rules, argVars>>

\* segment(t, disable) up to the call of applyRules: normalize, DP, backtrack
SegmentCall(t, disable) ==
    /\ pc = "idle"
    /\ text' = t
    /\ disablePP' = disable
    /\ norm' = Normalize(t)
    /\ renorm' = <<>>
    /\ i' = 0
    /\ IF Len(norm') = 0
       THEN /\ dp' = <<>>
            /\ segments' = <<>>
            /\ out' = <<>>
            /\ pc' = "done"
       ELSE /\ dp' = DPTable(norm')
            /\ segments' = Backtrack(norm', dp', Len(norm'))
            /\ IF disable
               THEN out' = segments' /\ pc' = "done"
               ELSE out' = <<>> /\ pc' = "rules"
    /\ UNCHANGED marks
    /\ UNCHANGED <<segmenterVars, argVars>>

\* one iteration of the while loop of applyRules
RuleStep ==
    /\ pc = "rules"
    /\ i < Len(segments)
    /\ LET r == ApplyRulesIteration(segments, i)
       IN  segments' = r.segments /\ i' = r.i
    /\ UNCHANGED <<text, disablePP, norm, renorm, dp, out, pc, marks, memo>>
    /\ UNCHANGED <<segmenterVars, argVars, workerVars, historyVars>>

\* applyRules returns; the unknown grouper; segment returns
GroupStep ==
    /\ pc = "rules"
    /\ i >= Len(segments)
    /\ out' = GroupUnknowns(segments)
    /\ pc' = "done"
    /\ UNCHANGED <<text, disablePP, norm, renorm, dp, segments, i, marks, memo>>
    /\ UNCHANGED <<segmenterVars, argVars, workerVars, historyVars>>

\* result.map(word => ({word, isUnknown: segmenter.isUnknown(word)}))
Annotate ==
    /\ pc = "done"
    /\ marks' = [k \in 1..Len(out) |-> IsUnknown(out[k])]
    /\ pc' = "annotated"
    /\ UNCHANGED <<text, disablePP, norm, renorm, dp, segments, i, out, memo>>
    /\ UNCHANGED <<segmenterVars, argVars, workerVars, historyVars>>

\* the call is over; the segmenter is ready for the next one
Return ==
    /\ pc \in {"done", "annotated"}
    /\ pc' = "idle"
    /\ text' = <<>>
    /\ disablePP' = FALSE
    /\ norm' = <<>>
    /\ renorm' = <<>>
    /\ dp' = <<>>
    /\ segments' = <<>>
    /\ i' = 0
    /\ out' = <<>>
    /\ marks' = <<>>
    /\ UNCHANGED memo
    /\ UNCHANGED <<segmenterVars, argVars, workerVars, historyVars>>

\* a caller invokes segment() on an idle segmenter with some text
Segment ==
    /\ pc = "idle"
    /\ \E t \in Texts, disable \in BOOLEAN : SegmentCall(t, disable)
    /\ UNCHANGED <<memo, workerVars, historyVars>>

Next ==
    \/ Segment
    \/ RuleStep
    \/ GroupStep
    \/ Return

Spec == Init /\ [][Next]_vars

-----------------------------------------------------------------------------
(* The normalizer alone: normalize(x), then normalize of the result *)

\* longest text passed to normalize() alone
MaxNormLen == 4

NormSigma == {KA, RO, COENG, E_VOWEL, II, AA, NIKAHIT, MUUSIKATOAN, ZWSP, LATIN_A}

\* longest text of bases and coengs passed to normalize() alone
MaxSubscriptLen == 6

SubscriptSigma == {KA, RO, COENG}

NormTexts ==
    StringsUpTo(NormSigma, MaxNormLen)
    \cup StringsUpTo(SubscriptSigma, MaxSubscriptLen)

InitNorm ==
    /\ words = {}
    /\ maxWordLength = 0
    /\ wordCosts = <<>>
    /\ defaultCost = 10000
    /\ unknownCost = 20000
    /\ rules = <<>>
    /\ dictionaryContent = <<>>
    /\ frequencyData = <<>>
    /\ rulesData = <<>>
    /\ pc = "idle"
    /\ text = <<>>
    /\ disablePP = FALSE
    /\ norm = <<>>
    /\ renorm = <<>>
    /\ dp = <<>>
    /\ segments = <<>>
    /\ i = 0
    /\ out = <<>>
    /\ marks = <<>>
    /\ memo = <<>>
    /\ inbox = <<>>
    /\ posted = <<>>
    /\ received = <<>>
    /\ activeRequestId = 0
    /\ pendingRequests = {}
    /\ mainRead = 0
    /\ stack = <<>>
    /\ currentIndex = -1
    /\ lastOp = NoCall

\* normalizer.normalize(t)
NormalizeCall(t) ==
    /\ text' = t
    /\ norm' = Normalize(t)
    /\ pc' = "normalized"
    /\ UNCHANGED <<disablePP, renorm, dp, segments, i, out, marks, memo>>
    /\ UNCHANGED <<segmenterVars, argVars, workerVars, historyVars>>

NormalizeText ==
    /\ pc = "idle"
    /\ \E t \in NormTexts : NormalizeCall(t)

\* normalizer.normalize(norm): the normalized text is normalized again
NormalizeAgain ==
    /\ pc = "normalized"
    /\ renorm' = Normalize(norm)
    /\ pc' = "renormalized"
    /\ UNCHANGED <<text, disablePP, norm, dp, segments, i, out, marks, memo>>
    /\ UNCHANGED <<segmenterVars, argVars, workerVars, historyVars>>

NextNorm == NormalizeText \/ NormalizeAgain

SpecNorm == InitNorm /\ [][NextNorm]_vars

-----------------------------------------------------------------------------
(* A caller that keeps the result of an earlier call and calls again *)

\* longest text of the repeated calls
MaxRepeatLen == 2

RepeatSigma == {KA, AA, LATIN_A}

RepeatTexts == StringsUpTo(RepeatSigma, MaxRepeatLen)

\* segment(t, disable); the record notes that a different call came after it
SegmentRepeat ==
    /\ pc = "idle"
    /\ \E t \in RepeatTexts, disable \in BOOLEAN :
          /\ SegmentCall(t, disable)
          /\ memo' = IF memo # <<>> /\ (memo[1] # t \/ memo[2] # disable)
                     THEN [memo EXCEPT ![4] = TRUE]
                     ELSE memo
    /\ UNCHANGED <<workerVars, historyVars>>

\* the caller keeps the result: <<text, disable, result, another call since>>
Remember ==
    /\ pc \in {"done", "annotated"}
    /\ memo' = <<text, disablePP, out, FALSE>>
    /\ UNCHANGED <<pc, text, disablePP, norm, renorm, dp, segments, i, out, marks>>
    /\ UNCHANGED <<segmenterVars, argVars, workerVars, historyVars>>

NextRepeat ==
    \/ SegmentRepeat
    \/ RuleStep
    \/ GroupStep
    \/ Annotate
    \/ Remember
    \/ Return

SpecRepeat == Init /\ [][NextRepeat]_vars

-----------------------------------------------------------------------------
(* The worker: segment(text), then isUnknown(word) for every returned word *)

\* longest text of ASCII digits, Khmer digits and commas
MaxDigitLen == 3

DigitSigma == {DIGIT_1, KHMER_ONE, COMMA}

\* longest text of letters, signs and dots passed by the worker
MaxMarkLen == 3

MarkSigma == {KA, NIKAHIT, DOT, LATIN_A}

MarkTexts ==
    StringsUpTo(MarkSigma, MaxMarkLen) \cup StringsUpTo(ChainSigma, MaxChainLen)
    \cup StringsUpTo(DigitSigma, MaxDigitLen)

\* constructor arguments: those above, and the dictionary with digits
MarkConfigs == Configs \cup {<<DictDigits, FreqDigits, <<RuleInvalidSingle>> >>}

InitMarks == \E c \in MarkConfigs : Construct(c)

\* segmenter.segment(text) called by the worker
SegmentMarked ==
    /\ pc = "idle"
    /\ \E t \in MarkTexts, disable \in BOOLEAN : SegmentCall(t, disable)
    /\ UNCHANGED <<memo, workerVars, historyVars>>

NextMarks ==
    \/ SegmentMarked
    \/ RuleStep
    \/ GroupStep
    \/ Annotate
    \/ Return

SpecMarks == InitMarks /\ [][NextMarks]_vars

-----------------------------------------------------------------------------
(* Segmenters built from rule lists with malformed and unusual rules *)

\* longest text passed to a segmenter built from these rule lists
MaxRuleLen == 3

RuleSigma == {KA, AA, LATIN_A, DOT}

RuleTexts == StringsUpTo(RuleSigma, MaxRuleLen)

\* rulesData arguments
RuleData ==
    { <<RuleBrokenRegex, RuleInvalidSingle, RuleDotNext>>,
      <<RuleInvalidSingle, RuleNoTrigger, RuleKaPrefix>>,
      <<RuleFuzzy, RuleInvalidSingle>>,
      <<RuleOddCheck>>,
      <<RuleLatinPrev, RuleBrokenRegex, RuleKeepDot>> }

\* new KhmerSegmenter(dictionary, undefined, rulesData)
InitRules == \E r \in RuleData : Construct(<<DictPlain, <<>>, r>>)

\* segment(t) with post-processing
SegmentRuleText ==
    /\ pc = "idle"
    /\ \E t \in RuleTexts : SegmentCall(t, FALSE)
    /\ UNCHANGED <<memo, workerVars, historyVars>>

NextRules ==
    \/ SegmentRuleText
    \/ RuleStep
    \/ GroupStep
    \/ Annotate
    \/ Return

SpecRules == InitRules /\ [][NextRules]_vars

-----------------------------------------------------------------------------
(* Segmenters built from rule lists in which several rules can fire at once *)

\* a dot joins the token before it
RuleDotPrev ==
    Rule(0, "exact_match", <<DOT>>, <<>>, "merge_prev")

\* a token starting with a Latin letter swallows the token after it
RuleLatinNext ==
    Rule(5, "regex", [ok |-> TRUE, classes |-> <<{LATIN_A}>>], <<>>, "merge_next")

\* rulesData arguments: rules of equal priority in both orders, and lists that
\* are not in priority order
OrderData ==
    { <<RuleDotNext, RuleDotPrev>>,
      <<RuleDotPrev, RuleDotNext>>,
      <<RuleDotNext, RuleKeepDot, RuleLatinPrev>>,
      <<RuleDotPrev, RuleLatinPrev, RuleLatinNext, RuleInvalidSingle>> }

\* new KhmerSegmenter(dictionary, undefined, rulesData)
InitOrder == \E r \in OrderData : Construct(<<DictPlain, <<>>, r>>)

NextOrder ==
    \/ SegmentRuleText
    \/ RuleStep
    \/ GroupStep
    \/ Return

SpecOrder == InitOrder /\ [][NextOrder]_vars

-----------------------------------------------------------------------------
(* Segmenters built from rules whose checks name a target that may be absent *)

\* a check on the previous token that gives a value of false and no kind
RuleValueFalse ==
    Rule(0, "exact_match", <<LATIN_A>>,
         <<Check("prev", FALSE, "none", "false")>>, "merge_next")

\* a check on the next token that gives a value of true and no kind
RuleValueTrue ==
    Rule(0, "exact_match", <<LATIN_A>>,
         <<Check("next", FALSE, "none", "true")>>, "merge_prev")

\* a check on the previous token that gives nothing but the target
RuleBareCheck ==
    Rule(0, "exact_match", <<DOT>>,
         <<Check("prev", FALSE, "none", "none")>>, "merge_next")

\* rulesData arguments
CheckData ==
    { <<RuleValueFalse>>,
      <<RuleValueTrue, RuleBareCheck>>,
      <<RuleKeepDot, RuleInvalidSingle>> }

\* new KhmerSegmenter(dictionary, undefined, rulesData)
InitChecks == \E r \in CheckData : Construct(<<DictPlain, <<>>, r>>)

NextChecks ==
    \/ SegmentRuleText
    \/ RuleStep
    \/ GroupStep
    \/ Return

SpecChecks == InitChecks /\ [][NextChecks]_vars

-----------------------------------------------------------------------------
(* The constructor's loaders: _loadDictionary, then _loadFrequencies *)

\* longest list of lines taken from LinePool
MaxLines == 2

\* longest line made of the characters of LineSigma
MaxLineLen == 2

LineSigma == {KA, COENG, LEK_TOO, OR_LETTER}

\* lines of a dictionary file: words with variants, compounds with U+17AC,
\* words the filters reject, padded and empty lines
LinePool ==
    { <<KA, COENG, TA>>,
      <<KA, COENG, RO, COENG, TA>>,
      <<KA, COENG, RO, COENG, TA, COENG, KA>>,
      <<OR_LETTER, KA, COENG, TA>>,
      <<OR_LETTER, KA, COENG, TA, KA, COENG, DA>>,
      <<KA, COENG, DA, KA, COENG, DA>>,
      <<KA, OR_LETTER, KA>>,
      <<KA, OR_LETTER>>,
      <<KA, LEK_TOO>>,
      <<LEK_TOO>>,
      <<COENG, KA>>,
      <<NIKAHIT>>,
      <<KA>>,
      <<ZWSP, KA, AA, SPACE>>,
      <<>> }

\* a dictionary file with lines of every kind
DictRejects ==
    << <<KA, LEK_TOO>>, <<COENG, KA>>, <<NIKAHIT>>, <<KA, COENG, RO, COENG, TA>>,
       <<>>, <<KA>>, <<KA, OR_LETTER, KA>> >>

\* the same lines with the words in front of the compound and the rejects
DictRejectsLast ==
    << <<KA>>, <<KA, OR_LETTER, KA>>, <<KA, COENG, RO, COENG, TA>>, <<>>,
       <<NIKAHIT>>, <<COENG, KA>>, <<KA, LEK_TOO>> >>

\* dictionaryContent arguments, as lists of lines
LineLists ==
    StringsUpTo(LinePool, MaxLines)
    \cup {<<a, b>> : a, b \in StringsUpTo(LineSigma, MaxLineLen)}
    \cup {DictRejects, DictRejectsLast}

\* frequency data with a word that has a variant
FreqVariants == << <<(<<KA, COENG, TA>>), 10>>, <<(<<KA>>), 20>> >>

\* frequency data with two keys that are one word once zero-width characters
\* are removed, and a count below the floor
FreqZeroWidth == << <<(<<KA>>), 10>>, <<(<<KA, ZWSP>>), 30>>, <<(<<KA, AA>>), 1>> >>

\* frequency data with a variant that is a key of its own further on
FreqVariantKey == << <<(<<KA, COENG, DA>>), 10>>, <<(<<KA, COENG, TA>>), 40>> >>

FreqInputs == {<<>>, FreqPair, FreqSingle, FreqVariants, FreqZeroWidth, FreqVariantKey}

\* constructor arguments
LoadConfigs ==
    {<<d, <<>>, <<>> >> : d \in LineLists}
    \cup {<<d, f, <<RuleInvalidSingle>> >> : d \in {<<>>, DictPlain}, f \in FreqInputs}

\* the constructor up to the call of _loadDictionary
InitLoad ==
    /\ \E c \in LoadConfigs :
          /\ dictionaryContent = c[1]
          /\ frequencyData = c[2]
          /\ rulesData = c[3]
    /\ words = {}
    /\ maxWordLength = 0
    /\ wordCosts = <<>>
    /\ defaultCost = 10000
    /\ unknownCost = 20000
    /\ rules = CompileRules(rulesData)
    /\ pc = "new"
    /\ text = <<>>
    /\ disablePP = FALSE
    /\ norm = <<>>
    /\ renorm = <<>>
    /\ dp = <<>>
    /\ segments = <<>>
    /\ i = 0
    /\ out = <<>>
    /\ marks = <<>>
    /\ memo = <<>>
    /\ inbox = <<>>
    /\ posted = <<>>
    /\ received = <<>>
    /\ activeRequestId = 0
    /\ pendingRequests = {}
    /\ mainRead = 0
    /\ stack = <<>>
    /\ currentIndex = -1
    /\ lastOp = NoCall

\* this._loadDictionary(dictionaryContent)
LoadDictionaryCall ==
    /\ pc = "new"
    /\ words' = LoadDictionary(dictionaryContent)
    /\ maxWordLength' = MaxLength(words')
    /\ pc' = "dictionary"
    /\ UNCHANGED <<wordCosts, defaultCost, unknownCost, rules, argVars, workerVars, historyVars>>
    /\ UNCHANGED <<text, disablePP, norm, renorm, dp, segments, i, out, marks, memo>>

\* this._loadFrequencies(frequencyData)
LoadFrequenciesCall ==
    /\ pc = "dictionary"
    /\ LET f == LoadFrequencies(frequencyData)
       IN  /\ wordCosts' = f.wordCosts
           /\ defaultCost' = f.defaultCost
           /\ unknownCost' = f.unknownCost
    /\ pc' = "idle"
    /\ UNCHANGED <<words, maxWordLength, rules, argVars, workerVars, historyVars>>
    /\ UNCHANGED <<text, disablePP, norm, renorm, dp, segments, i, out, marks, memo>>

NextLoad == LoadDictionaryCall \/ LoadFrequenciesCall

SpecLoad == InitLoad /\ [][NextLoad]_vars

-----------------------------------------------------------------------------
(* The segmentation worker and the page that posts to it *)

\* number of requests the page posts
MaxRequests == 3

\* length of the texts the page posts
MaxWorkerLen == 1

WorkerSigma == {KA}

WorkerTexts == StringsUpTo(WorkerSigma, MaxWorkerLen)

\* the files the worker fetches
WorkerConfigs ==
    { <<DictPlain, <<>>, <<RuleInvalidSingle>> >>,
      <<DictPlain, FreqPair, <<>> >> }

\* a message posted to the worker: {type, text, id}
SegmentMessage(t, isString, id) ==
    [type |-> "segment", text |-> t, isString |-> isString, id |-> id]

\* a message posted by the worker; id is -1 where the message carries none
WorkerMessage(type, id) == [type |-> type, id |-> id]

\* the worker script starts: segmenter is null and init() awaits its fetches
InitWorker ==
    \E c \in WorkerConfigs :
        /\ dictionaryContent = c[1]
        /\ frequencyData = c[2]
        /\ rulesData = c[3]
        /\ words = {}
        /\ maxWordLength = 0
        /\ wordCosts = <<>>
        /\ defaultCost = 10000
        /\ unknownCost = 20000
        /\ rules = <<>>
        /\ pc = "loading"
        /\ text = <<>>
        /\ disablePP = FALSE
        /\ norm = <<>>
        /\ renorm = <<>>
        /\ dp = <<>>
        /\ segments = <<>>
        /\ i = 0
        /\ out = <<>>
        /\ marks = <<>>
        /\ memo = <<>>
        /\ inbox = <<>>
        /\ posted = <<>>
        /\ received = <<>>
        /\ activeRequestId = 0
        /\ pendingRequests = {}
        /\ mainRead = 0
        /\ stack = <<>>
        /\ currentIndex = -1
        /\ lastOp = NoCall

\* the segmenter variable of the worker is set
SegmenterBuilt == pc \notin {"loading", "failed"}

\* the worker is between two handlers
WorkerBetweenHandlers == pc \in {"loading", "failed", "idle"}

\* init(): the fetches succeed, the segmenter is built, 'ready' is posted
WorkerInitReady ==
    /\ pc = "loading"
    /\ LET ws == LoadDictionary(dictionaryContent)
           f == LoadFrequencies(frequencyData)
       IN  /\ words' = ws
           /\ maxWordLength' = MaxLength(ws)
           /\ wordCosts' = f.wordCosts
           /\ defaultCost' = f.defaultCost
           /\ unknownCost' = f.unknownCost
           /\ rules' = CompileRules(rulesData)
    /\ pc' = "idle"
    /\ posted' = Append(posted, WorkerMessage("ready", -1))
    /\ UNCHANGED <<text, disablePP, norm, renorm, dp, segments, i, out, marks, memo>>
    /\ UNCHANGED <<argVars, inbox, received, activeRequestId, pendingRequests, mainRead, historyVars>>

\* init(): a fetch fails; the catch posts an 'error' without id
WorkerInitFailed ==
    /\ pc = "loading"
    /\ pc' = "failed"
    /\ posted' = Append(posted, WorkerMessage("error", -1))
    /\ UNCHANGED <<text, disablePP, norm, renorm, dp, segments, i, out, marks, memo>>
    /\ UNCHANGED <<segmenterVars, argVars>>
    /\ UNCHANGED <<inbox, received, activeRequestId, pendingRequests, mainRead, historyVars>>

\* performRealTimeSegmentation: id = activeRequestId++, pendingRequests.set,
\* worker.postMessage({type: 'segment', text, id})
PostSegment ==
    /\ activeRequestId < MaxRequests
    /\ \E t \in WorkerTexts, isString \in BOOLEAN :
        /\ isString \/ t = <<>>
        /\ inbox' = Append(inbox, SegmentMessage(t, isString, activeRequestId))
    /\ pendingRequests' = pendingRequests \cup {activeRequestId}
    /\ activeRequestId' = activeRequestId + 1
    /\ UNCHANGED <<pc, text, disablePP, norm, renorm, dp, segments, i, out, marks, memo>>
    /\ UNCHANGED <<segmenterVars, argVars, posted, received, mainRead, historyVars>>

\* a handler that reports the missing segmenter to the sender
WorkerDiscardAnswers ==
    /\ pc \in {"loading", "failed"}
    /\ inbox # <<>>
    /\ inbox' = Tail(inbox)
    /\ posted' = Append(posted, WorkerMessage("error", Head(inbox).id))
    /\ received' = Append(received, [msg |-> Head(inbox), built |-> FALSE])
    /\ UNCHANGED <<pc, text, disablePP, norm, renorm, dp, segments, i, out, marks, memo>>
    /\ UNCHANGED <<segmenterVars, argVars, activeRequestId, pendingRequests, mainRead, historyVars>>

\* self.onmessage while segmenter is null: if (!segmenter) return
WorkerDiscard ==
    /\ pc \in {"loading", "failed"}
    /\ inbox # <<>>
    /\ inbox' = Tail(inbox)
    /\ received' = Append(received, [msg |-> Head(inbox), built |-> FALSE])
    /\ UNCHANGED <<pc, text, disablePP, norm, renorm, dp, segments, i, out, marks, memo>>
    /\ UNCHANGED <<segmenterVars, argVars, posted, activeRequestId, pendingRequests, mainRead, historyVars>>

\* self.onmessage with a segmenter: segmenter.segment(text) is called; a text
\* that is no string makes normalize throw and the catch posts the 'error'
WorkerReceive ==
    /\ pc = "idle"
    /\ inbox # <<>>
    /\ LET msg == Head(inbox)
       IN  /\ inbox' = Tail(inbox)
           /\ received' = Append(received, [msg |-> msg, built |-> TRUE])
           /\ IF msg.type = "segment" /\ msg.isString
              THEN SegmentCall(msg.text, FALSE) /\ UNCHANGED posted
              ELSE /\ posted' = IF msg.type = "segment"
                                THEN Append(posted, WorkerMessage("error", msg.id))
                                ELSE posted
                   /\ UNCHANGED <<pc, text, disablePP, norm, renorm, dp,
                                  segments, i, out, marks>>
                   /\ UNCHANGED <<segmenterVars, argVars>>
    /\ UNCHANGED <<memo, activeRequestId, pendingRequests, mainRead, historyVars>>

\* postMessage({type: 'result', id, result: annotated}); the handler returns
WorkerReply ==
    /\ pc = "annotated"
    /\ posted' = Append(posted, WorkerMessage("result", received[Len(received)].msg.id))
    /\ pc' = "idle"
    /\ text' = <<>>
    /\ disablePP' = FALSE
    /\ norm' = <<>>
    /\ renorm' = <<>>
    /\ dp' = <<>>
    /\ segments' = <<>>
    /\ i' = 0
    /\ out' = <<>>
    /\ marks' = <<>>
    /\ UNCHANGED <<memo, inbox, received, activeRequestId, pendingRequests, mainRead, historyVars>>
    /\ UNCHANGED <<segmenterVars, argVars>>

\* worker.onmessage of the page: 'ready', 'result' -> handleWorkerResult,
\* 'error' -> console.error
PageReceive ==
    /\ mainRead < Len(posted)
    /\ mainRead' = mainRead + 1
    /\ LET m == posted[mainRead + 1]
       IN  pendingRequests' = IF m.type = "result"
                              THEN pendingRequests \ {m.id}
                              ELSE pendingRequests
    /\ UNCHANGED <<pc, text, disablePP, norm, renorm, dp, segments, i, out, marks, memo>>
    /\ UNCHANGED <<segmenterVars, argVars, inbox, posted, received, activeRequestId, historyVars>>

\* the steps of a running onmessage handler, which runs to completion
WorkerHandlerStep == RuleStep \/ GroupStep \/ Annotate \/ WorkerReply

NextWorker ==
    \/ WorkerInitReady
    \/ WorkerInitFailed
    \/ PostSegment
    \/ WorkerDiscard
    \/ WorkerReceive
    \/ RuleStep
    \/ GroupStep
    \/ Annotate
    \/ WorkerReply
    \/ PageReceive

SpecWorker == InitWorker /\ [][NextWorker]_vars /\ WF_vars(WorkerHandlerStep)

-----------------------------------------------------------------------------
(* The undo history of the page *)

\* historyManager.maxSize
maxSize == 50

HTML_EMPTY == <<>>
HTML_KA == <<KA>>

\* the states getCurrentState can return, by their html
HistoryStates == {[html |-> HTML_EMPTY], [html |-> HTML_KA]}

\* the page is loaded: the segmenter plays no part, the history is empty
InitHistory ==
    /\ Construct(<<DictPlain, <<>>, <<>> >>)

\* the record of a call on historyManager
Call(op, state) ==
    [op |-> op, state |-> state, stack |-> stack, currentIndex |-> currentIndex]

\* this.stack[this.currentIndex] exists and has the html of state
IdenticalToCurrent(stk, idx, state) ==
    /\ idx >= 0
    /\ idx < Len(stk)
    /\ stk[idx + 1].html = state.html

\* the stack a push that keeps its redo entries would work on
PushKeepRedo(stk, idx) == stk

\* this.stack.slice(0, this.currentIndex + 1) when currentIndex is not the last
PushSlice(stk, idx) ==
    IF idx < Len(stk) - 1 THEN SubSeq(stk, 1, idx + 1) ELSE stk

\* historyManager.push(state)
HistoryPush ==
    \E state \in HistoryStates :
        LET sliced == PushSlice(stack, currentIndex)
        IN  /\ lastOp' = Call("push", state)
            /\ IF IdenticalToCurrent(sliced, currentIndex, state)
               THEN stack' = sliced /\ UNCHANGED currentIndex
               ELSE LET pushed == Append(sliced, state)
                    IN  IF Len(pushed) > maxSize
                        THEN stack' = Tail(pushed) /\ UNCHANGED currentIndex
                        ELSE stack' = pushed /\ currentIndex' = currentIndex + 1
            /\ UNCHANGED <<pc, text, disablePP, norm, renorm, dp, segments, i, out, marks, memo>>
            /\ UNCHANGED <<segmenterVars, argVars, workerVars>>

\* historyManager.undo()
HistoryUndo ==
    /\ lastOp' = Call("undo", NoCall.state)
    /\ currentIndex' = IF currentIndex > 0 THEN currentIndex - 1 ELSE currentIndex
    /\ UNCHANGED stack
    /\ UNCHANGED <<pc, text, disablePP, norm, renorm, dp, segments, i, out, marks, memo>>
    /\ UNCHANGED <<segmenterVars, argVars, workerVars>>

\* historyManager.redo()
HistoryRedo ==
    /\ lastOp' = Call("redo", NoCall.state)
    /\ currentIndex' = IF currentIndex < Len(stack) - 1
                       THEN currentIndex + 1 ELSE currentIndex
    /\ UNCHANGED stack
    /\ UNCHANGED <<pc, text, disablePP, norm, renorm, dp, segments, i, out, marks, memo>>
    /\ UNCHANGED <<segmenterVars, argVars, workerVars>>

NextHistory == HistoryPush \/ HistoryUndo \/ HistoryRedo

SpecHistory == InitHistory /\ [][NextHistory]_vars

-----------------------------------------------------------------------------
(* Definitions the properties are stated with *)

\* the raw segments of the current call (rawSegments)
RawSegments == Backtrack(norm, dp, Len(norm))

\* the transition table of the DP at position p of t: a set of <<j, stepCost>>
Transitions(t, p) ==
    IF ForceRepair(t, p) THEN {<<p + 1, unknownCost + 50000>>}
    ELSE
        (IF IsDigitChar(Ch(t, p)) THEN {<<p + GetNumberLength(t, p), 1000>>}
         ELSE IF IsSeparator(<<Ch(t, p)>>) THEN {<<p + 1, 100>>}
         ELSE {})
        \cup
        (IF IsAcronymStart(t, p)
         THEN {<<p + GetAcronymLength(t, p), defaultCost>>} ELSE {})
        \cup
        {<<j, GetWordCost(Slice(t, p, j))>> :
            j \in {k \in (p + 1)..Len(t) :
                     k <= p + maxWordLength /\ Slice(t, p, k) \in words}}
        \cup
        (IF IsKhmerChar(Ch(t, p))
         THEN {<<p + GetKhmerClusterLength(t, p),
                 IF GetKhmerClusterLength(t, p) = 1
                    /\ ~IsValidSingleBaseChar(Ch(t, p))
                 THEN unknownCost + 10000 ELSE unknownCost>>}
         ELSE {<<p + 1, unknownCost>>})

\* the least total step cost of a cover of t[p..n) by transitions; InfCost if none
RECURSIVE MinCover(_, _)
MinCover(t, p) ==
    IF p >= Len(t) THEN 0
    ELSE LET totals == {LET rest == MinCover(t, tr[1])
                        IN  IF rest = InfCost THEN InfCost ELSE tr[2] + rest :
                            tr \in {x \in Transitions(t, p) : x[1] <= Len(t)}}
         IN  IF totals = {} THEN InfCost ELSE MinOf(totals)

\* the least step cost of a transition p -> j of the table; InfCost if none
StepCost(t, p, j) ==
    LET costs == {tr[2] : tr \in {x \in Transitions(t, p) : x[1] = j}}
    IN  IF costs = {} THEN InfCost ELSE MinOf(costs)

\* the sum of the step costs of the tokens on the backtrack chain from curr
RECURSIVE ChainCost(_, _, _)
ChainCost(t, d, curr) ==
    IF curr <= 0 THEN 0
    ELSE IF d[curr + 1].prev = -1 THEN InfCost
    ELSE LET step == StepCost(t, d[curr + 1].prev, curr)
             rest == ChainCost(t, d, d[curr + 1].prev)
         IN  IF step = InfCost \/ rest = InfCost THEN InfCost ELSE step + rest

\* every index on the backtrack chain from curr has prev # -1
RECURSIVE ChainLinked(_, _)
ChainLinked(d, curr) ==
    IF curr <= 0 THEN TRUE
    ELSE d[curr + 1].prev # -1 /\ d[curr + 1].prev < curr
         /\ ChainLinked(d, d[curr + 1].prev)

\* t consists of zero-width characters only (or is empty)
OnlyZeroWidth(t) == \A k \in 1..Len(t) : t[k] \in {ZWSP, ZWNJ, ZWJ}

\* the termination measure of the applyRules loop
RuleMeasure == 2 * Len(segments) - i

\* t[p..n) is made of Khmer clusters each immediately followed by '.'
RECURSIVE ClusterDotChain(_, _)
ClusterDotChain(t, p) ==
    IF p >= Len(t) THEN TRUE
    ELSE /\ Ch(t, p) >= 6016 /\ Ch(t, p) <= 6067
         /\ LET dotIndex == ClusterScan(t, p + 1)
            IN  /\ dotIndex < Len(t)
                /\ Ch(t, dotIndex) = DOT
                /\ ClusterDotChain(t, dotIndex + 1)

\* t is a non-empty chain of Khmer clusters each followed by '.'
IsAcronymChain(t) == t # <<>> /\ ClusterDotChain(t, 0)

\* t[p..n) continues a digit run: digits, and ',' or '.' only before a digit
RECURSIVE DigitRunFrom(_, _)
DigitRunFrom(t, p) ==
    IF p >= Len(t) THEN TRUE
    ELSE IF IsDigitChar(Ch(t, p)) THEN DigitRunFrom(t, p + 1)
    ELSE /\ Ch(t, p) \in {COMMA, DOT}
         /\ p + 1 < Len(t)
         /\ IsDigitChar(Ch(t, p + 1))
         /\ DigitRunFrom(t, p + 2)

\* t is one digit run
IsDigitRun(t) == t # <<>> /\ IsDigitChar(t[1]) /\ DigitRunFrom(t, 1)

\* the clusters and loose characters of t as the loop of normalize cuts them:
\* a list of [loose, parts], parts being the list of units
RECURSIVE ClusterUnits(_, _, _, _)
ClusterUnits(t, p, result, cluster) ==
    LET flushed == IF cluster # <<>>
                   THEN Append(result, [loose |-> FALSE, parts |-> cluster])
                   ELSE result
    IN  IF p >= Len(t) THEN flushed
        ELSE
            LET c == Ch(t, p)
                ctype == GetCharType(c)
            IN  IF ctype = "BASE" THEN
                    ClusterUnits(t, p + 1, flushed, <<(<<c>>)>>)
                ELSE IF ctype = "COENG" THEN
                    IF p + 1 < Len(t) /\ GetCharType(Ch(t, p + 1)) = "BASE"
                    THEN ClusterUnits(t, p + 2, result,
                                      Append(cluster, <<c, Ch(t, p + 1)>>))
                    ELSE ClusterUnits(t, p + 1, result, Append(cluster, <<c>>))
                ELSE IF ctype \in {"VOWEL", "SIGN", "REGISTER"} /\ cluster # <<>>
                THEN ClusterUnits(t, p + 1, result, Append(cluster, <<c>>))
                ELSE ClusterUnits(t, p + 1,
                                  Append(flushed, [loose |-> TRUE, parts |-> <<(<<c>>)>>]),
                                  <<>>)

Clusters(t) == ClusterUnits(t, 0, <<>>, <<>>)

\* the place of an attached unit in the order: non-Ro subscript, stray coeng,
\* Ro subscript, register, dep-vowel, sign
UnitRank(unit) ==
    IF unit[1] = COENG /\ Len(unit) = 2 /\ unit[2] # RO THEN 1
    ELSE IF unit = <<COENG>> THEN 2
    ELSE IF unit = <<COENG, RO>> THEN 3
    ELSE IF unit[1] \in {6089, 6090} THEN 4
    ELSE IF unit[1] >= 6070 /\ unit[1] <= 6085 THEN 5
    ELSE 6

\* the position in the normalized text at which raw token k starts
RawStart(k) == Len(Join(SubSeq(RawSegments, 1, k - 1)))

\* position p of t follows a coeng or holds a dep-vowel (U+17B6..U+17C5)
Stranded(t, p) ==
    \/ p > 0 /\ Ch(t, p - 1) = 6098
    \/ Ch(t, p) >= 6070 /\ Ch(t, p) <= 6085

\* the rule has a trigger object, and its regex (if any) compiles
WellFormed(rule) ==
    /\ rule.trigger.type # "undefined"
    /\ rule.trigger.type = "regex" => rule.trigger.value.ok

\* the trigger type is one the engine knows
KnownTrigger(rule) ==
    rule.trigger.type \in {"exact_match", "regex", "complexity_check"}

\* the rule without its checks of an unknown kind
WithoutOddChecks(rule) ==
    [rule EXCEPT !.checks =
        SelectSeq(rule.checks,
                  LAMBDA c : c.check \in {"is_separator", "is_isolated"})]

\* the index of a rule in the rulesData argument
RulePos(rule) == CHOOSE k \in 1..Len(rulesData) : rulesData[k] = rule

\* 3. Apply action: the token list and the index after the action of a rule
\* that fired at idx
ActionResult(action, segs, idx) ==
    IF action = "merge_next"
    THEN [segments |-> SubSeq(segs, 1, idx) \o <<segs[idx + 1] \o segs[idx + 2]>>
                         \o SubSeq(segs, idx + 3, Len(segs)),
          i |-> idx]
    ELSE IF action = "merge_prev"
    THEN [segments |-> SubSeq(segs, 1, idx - 1) \o <<segs[idx] \o segs[idx + 1]>>
                         \o SubSeq(segs, idx + 2, Len(segs)),
          i |-> idx - 1]
    ELSE [segments |-> segs, i |-> idx + 1]

\* the sum of the values of a function with a finite domain
RECURSIVE SumOf(_)
SumOf(f) ==
    IF DOMAIN f = {} THEN 0
    ELSE LET k == CHOOSE x \in DOMAIN f : TRUE
         IN  f[k] + SumOf([x \in DOMAIN f \ {k} |-> f[x]])

\* effectiveCounts after the first loop of _loadFrequencies
EffectiveCounts == CountLoop(frequencyData, <<>>, 0).eff

\* the word of line k of the dictionary content: trimmed, zero-width stripped
LineWord(k) == StripZW(Trim(dictionaryContent[k]))

\* the index in t at which entry k of the list of clusters cs of t starts
ClusterOffset(cs, k) == Len(Join([n \in 1..(k - 1) |-> Join(cs[n].parts)]))

\* number of 'result' and 'error' messages the worker has posted with this id
Answers(id) ==
    Cardinality({n \in 1..Len(posted) :
                    posted[n].type \in {"result", "error"} /\ posted[n].id = id})

\* the worker has received the 'segment' message with this id while its
\* segmenter was / was not built
ReceivedWith(id, built) ==
    \E k \in 1..Len(received) :
        /\ received[k].msg.type = "segment"
        /\ received[k].msg.id = id
        /\ received[k].built = built

-----------------------------------------------------------------------------
(* Properties *)

\* C1: when segment(x, disablePostProcessing = true) has returned, the
\* concatenation of the returned tokens, in order, is exactly normalize(x).
C1_RawConcatIsNormalized ==
    (pc = "done" /\ disablePP) => Join(out) = Normalize(text)

\* a raw call that returned several tokens for a text that normalization
\* changed
C1_Witness ==
    /\ pc = "done" /\ disablePP
    /\ Len(out) >= 2
    /\ Normalize(text) # text

\* C2: with post-processing, the concatenation of the tokens is normalize(x)
\* when segment(x) has returned, and also after every iteration of applyRules.
C2_ConcatIsNormalized ==
    /\ (pc = "done" /\ ~disablePP) => Join(out) = Normalize(text)
    /\ pc = "rules" => Join(segments) = Normalize(text)

\* a call in which a rule merged two tokens and the grouper joined a buffer
C2_Witness ==
    /\ pc = "done" /\ ~disablePP
    /\ Len(segments) < Len(RawSegments)
    /\ Len(out) < Len(segments)

\* C3: after the DP loop on a non-empty normalized text, dp[n] is finite,
\* every index on the backtrack chain from n has a prev (the one-character
\* escape is not taken), and no transition indexes dp beyond n (the only
\* unguarded accesses, which would throw).
C3_SegmentationNeverFails ==
    (pc = "done" /\ norm # <<>>) =>
        /\ Len(dp) = Len(norm) + 1
        /\ dp[Len(norm) + 1].cost < InfCost
        /\ ChainLinked(dp, Len(norm))
        /\ \A p \in 0..(Len(norm) - 1) :
              /\ IsDigitChar(Ch(norm, p))
                    => p + GetNumberLength(norm, p) <= Len(norm)
              /\ IsAcronymStart(norm, p)
                    => p + GetAcronymLength(norm, p) <= Len(norm)

\* a call whose chain goes through a forced-repair position
C3_Witness ==
    /\ pc = "done"
    /\ Len(norm) >= 3
    /\ ForceRepair(norm, 1)
    /\ dp[3].prev = 1
    /\ dp[Len(norm) + 1].cost < InfCost

\* C4: the sum of the step costs of the returned raw tokens equals the least
\* total step cost over all covers of the normalized text by transitions of
\* the transition table (and so does dp[n]).
C4_CoverIsOptimal ==
    (pc = "done" /\ norm # <<>>) =>
        LET least == MinCover(norm, 0)
        IN  /\ ChainCost(norm, dp, Len(norm)) = least
            /\ dp[Len(norm) + 1].cost = least

\* a call where three transitions compete at position 0 and a dictionary
\* word of two characters is chosen
C4_Witness ==
    /\ pc = "done"
    /\ Len(norm) >= 3
    /\ Cardinality(Transitions(norm, 0)) >= 3
    /\ Len(RawSegments[1]) = 2
    /\ RawSegments[1] \in words

\* C5: normalize is idempotent: normalize(normalize(x)) = normalize(x).
C5_NormalizeIdempotent ==
    pc = "renormalized" => renorm = norm

\* C6: normalize(x) contains no U+200B, U+200C, U+200D and no substring
\* U+17C1 U+17B8 or U+17C1 U+17B6.
C6_NoZeroWidthNoSplitVowel ==
    pc = "normalized" =>
        /\ \A k \in 1..Len(norm) : norm[k] \notin {ZWSP, ZWNJ, ZWJ}
        /\ ~IncludesPair(norm, E_VOWEL, II)
        /\ ~IncludesPair(norm, E_VOWEL, AA)

\* C7: in the output of segment(x) with post-processing, no two adjacent
\* tokens are both unknown while their first characters agree on being
\* Khmer or not.
C7_UnknownRunsMaximal ==
    (pc = "done" /\ ~disablePP) =>
        \A k \in 1..(Len(out) - 1) :
            ~(/\ IsUnknown(out[k])
              /\ IsUnknown(out[k + 1])
              /\ IsKhmerChar(out[k][1]) = IsKhmerChar(out[k + 1][1]))

\* an output with a joined unknown run next to an unknown of the other class
C7_Witness ==
    /\ pc = "done" /\ ~disablePP
    /\ \E k \in 1..(Len(out) - 1) :
          /\ IsUnknown(out[k]) /\ IsUnknown(out[k + 1])
          /\ Len(out[k]) >= 2

\* C8 as stated: for every word w of the dictionary, segment(w) returns <<w>>
\* provided no cover of w by transitions costs less than cost(w).
C8_DictionaryWordIsOneToken ==
    (pc = "done" /\ ~disablePP /\ text \in words
        /\ MinCover(text, 0) >= GetWordCost(text)) => out = <<text>>

\* C8 amended: for every word w of the dictionary that is in normalized form
\* (normalize(w) = w) and does not begin with a dependent vowel
\* (U+17B6..U+17C5), segment(w) returns <<w>> provided no cover of w by
\* transitions costs less than cost(w).
C8_NormalizedDictionaryWordIsOneToken ==
    (pc = "done" /\ text \in words
        /\ Normalize(text) = text
        /\ ~(text[1] >= 6070 /\ text[1] <= 6085)
        /\ MinCover(text, 0) >= GetWordCost(text)) => out = <<text>>

\* a dictionary word of several characters, with a frequency-derived cost,
\* returned as one token
C8_Witness ==
    /\ pc = "done" /\ ~disablePP
    /\ text \in words
    /\ Len(text) >= 2
    /\ text \in DOMAIN wordCosts
    /\ Normalize(text) = text
    /\ MinCover(text, 0) >= GetWordCost(text)
    /\ out = <<text>>

\* C9: segment returns the empty list exactly when normalize(text) is empty,
\* which is exactly when the text is empty or made of zero-width characters
\* only; with or without post-processing.
C9_EmptyIffNormalizedEmpty ==
    pc = "done" =>
        /\ (out = <<>>) <=> (Normalize(text) = <<>>)
        /\ (Normalize(text) = <<>>) <=> OnlyZeroWidth(text)

\* a non-empty text of zero-width characters answered with the empty list
C9_Witness ==
    pc = "done" /\ text # <<>> /\ out = <<>>

\* C10: every iteration of the applyRules loop shortens the sequence or
\* advances i, strictly decreases 2 * length - i, and keeps 0 <= i <= length:
\* the loop terminates.
C10_ApplyRulesTerminates ==
    [][(pc = "rules" /\ pc' = "rules") =>
          /\ (Len(segments') < Len(segments) \/ i' > i)
          /\ RuleMeasure' < RuleMeasure
          /\ i' >= 0
          /\ i' <= Len(segments')]_vars

\* the merged token at index 0 triggered a merge again
C10_Witness ==
    /\ pc = "rules"
    /\ i = 0
    /\ Len(RawSegments) - Len(segments) >= 2

\* C11: no step of segment() or isUnknown() changes the word set,
\* maxWordLength, the word costs, defaultCost, unknownCost or the compiled
\* rules; and a call with the text (and flag) of a remembered earlier call
\* returns the remembered token list, whatever calls came in between.
C11_SegmenterImmutable ==
    /\ [][segmenterVars' = segmenterVars]_vars
    /\ [](((pc = "done" /\ memo # <<>>) /\ (memo[1] = text /\ memo[2] = disablePP))
             => out = memo[3])

\* the same text segmented again after a call with another text, with a
\* result of several tokens
C11_Witness ==
    /\ pc = "done"
    /\ memo # <<>>
    /\ memo[1] = text /\ memo[2] = disablePP
    /\ memo[4]
    /\ Len(out) >= 2

\* C12: a malformed rule (no trigger, or a regex that does not compile) is
\* the only rule dropped: the compiled list is the well-formed rules of
\* rulesData in descending priority order (stable).
C12_OnlyMalformedRuleDropped ==
    rules = SortByPriority(SelectSeq(rulesData, WellFormed))

\* C13: a rule whose trigger type is none of exact_match, regex,
\* complexity_check is absent from the compiled rule list, and it never
\* fires on any token.
C13_UnknownTriggerDropped ==
    /\ \A k \in 1..Len(rules) : KnownTrigger(rules[k])
    /\ (pc = "rules" /\ i < Len(segments)) =>
          \A k \in 1..Len(rules) :
              ~KnownTrigger(rules[k]) => ~RuleFires(rules[k], segments, i)

\* C14 as stated: a check of an unknown kind never prevents its rule from
\* firing: at every position the rule fires exactly when it would fire
\* without that check.
C14_UnknownCheckPasses ==
    (pc = "rules" /\ i < Len(segments)) =>
        \A k \in 1..Len(rules) :
            RuleFires(rules[k], segments, i)
                = RuleFires(WithoutOddChecks(rules[k]), segments, i)

\* C14 amended: a check of an unknown kind whose target resolves to a
\* segment passes: where the targets of all such checks of a rule resolve,
\* the rule fires exactly when it would fire without them.
C14_UnknownCheckPassesOnTarget ==
    (pc = "rules" /\ i < Len(segments)) =>
        \A k \in 1..Len(rules) :
            (\A n \in 1..Len(rules[k].checks) :
                rules[k].checks[n].check \notin {"is_separator", "is_isolated"}
                    => HasTarget(rules[k].checks[n], segments, i))
            => RuleFires(rules[k], segments, i)
                 = RuleFires(WithoutOddChecks(rules[k]), segments, i)

\* the rule with the check of an unknown kind fired: a merge took place
C14_Witness ==
    /\ pc = "rules"
    /\ rules = <<RuleOddCheck>>
    /\ i > 0
    /\ Len(segments) < Len(RawSegments)

\* C15: for every non-empty substring t of the normalized text (every token
\* is one), isUnknown(t) is the negation of the grouper's known test; the
\* marks the caller computes for the returned tokens are these values; and
\* a token the grouper passed on as known is not marked unknown.
C15_IsUnknownNegatesKnown ==
    /\ pc \in {"rules", "done", "annotated"} =>
          \A a \in 0..(Len(norm) - 1) : \A b \in (a + 1)..Len(norm) :
              IsUnknown(Slice(norm, a, b)) = ~IsKnown(Slice(norm, a, b))
    /\ pc = "annotated" =>
          /\ Len(marks) = Len(out)
          /\ \A k \in 1..Len(out) : marks[k] = ~IsKnown(out[k])
          /\ ~disablePP =>
                \A k \in 1..Len(out) :
                    (\E n \in 1..Len(segments) :
                        segments[n] = out[k] /\ IsKnown(segments[n]))
                    => ~marks[k]

\* annotated tokens with an unknown one and a token known only because it
\* contains '.'
C15_Witness ==
    /\ pc = "annotated" /\ ~disablePP
    /\ \E k \in 1..Len(out) : marks[k]
    /\ \E k \in 1..Len(out) :
          /\ ~marks[k] /\ IncludesDot(out[k]) /\ Len(out[k]) >= 2
          /\ out[k] \notin words /\ ~IsDigitChar(out[k][1])

\* C16 as stated: for a text that is a chain of Khmer clusters each followed
\* by '.', segment returns the whole text as one token and that token is not
\* marked unknown.
C16_AcronymChainIsOneToken ==
    (pc = "annotated" /\ IsAcronymChain(text)) =>
        out = <<text>> /\ marks = <<FALSE>>

\* C16 amended: the same for a chain that is in normalized form, provided no
\* cover of the text by transitions costs less than defaultCost, the cost of
\* the acronym transition.
C16_CheapestAcronymChainIsOneToken ==
    (pc = "annotated" /\ IsAcronymChain(text)
        /\ Normalize(text) = text
        /\ MinCover(text, 0) >= defaultCost) =>
        out = <<text>> /\ marks = <<FALSE>>

\* a chain of two clusters, not a dictionary word, returned as one known
\* token after post-processing
C16_Witness ==
    /\ pc = "annotated" /\ ~disablePP
    /\ IsAcronymChain(text)
    /\ Len(text) >= 4
    /\ text \notin words
    /\ MinCover(text, 0) >= defaultCost
    /\ out = <<text>> /\ marks = <<FALSE>>

\* C17 as stated: for a text that is one digit run, segment returns the whole
\* text as one token and that token is not marked unknown.
C17_DigitRunIsOneToken ==
    (pc = "annotated" /\ IsDigitRun(text)) =>
        out = <<text>> /\ marks = <<FALSE>>

\* C17 amended: the same provided no cover of the text by transitions costs
\* less than 1.0, the cost of the number transition.
C17_CheapestDigitRunIsOneToken ==
    (pc = "annotated" /\ IsDigitRun(text) /\ MinCover(text, 0) >= 1000) =>
        out = <<text>> /\ marks = <<FALSE>>

\* a run with an ASCII digit, a separator inside and a Khmer digit, returned
\* as one known token
C17_Witness ==
    /\ pc = "annotated" /\ ~disablePP
    /\ IsDigitRun(text)
    /\ Len(text) >= 3
    /\ \E k \in 1..Len(text) : text[k] \in {COMMA, DOT}
    /\ \E k \in 1..Len(text) : text[k] = KHMER_ONE
    /\ \E k \in 1..Len(text) : text[k] = DIGIT_1
    /\ out = <<text>> /\ marks = <<FALSE>>

\* C18: with the single rule RuleInvalidSingle, an iteration of applyRules
\* at an invalid single token whose previous token exists and is not a
\* separator appends it to the previous token, removes it and steps back; at
\* any other token it changes nothing and advances.  Hence no token before
\* index i is an invalid single with a non-separator previous token: when
\* the loop ends every such token has been merged, and an invalid single
\* that is first or follows a separator is left as it is.
C18_InvalidSingleMergedIntoPrev ==
    /\ [][(pc = "rules" /\ pc' = "rules" /\ rulesData = <<RuleInvalidSingle>>) =>
            IF /\ IsInvalidSingle(segments[i + 1])
               /\ i > 0
               /\ ~IsSeparator(segments[i])
            THEN /\ i' = i - 1
                 /\ Len(segments') = Len(segments) - 1
                 /\ segments'[i] = segments[i] \o segments[i + 1]
                 /\ \A n \in 1..(i - 1) : segments'[n] = segments[n]
                 /\ \A n \in (i + 1)..Len(segments') : segments'[n] = segments[n + 1]
            ELSE segments' = segments /\ i' = i + 1]_vars
    /\ []((pc = "rules" /\ rulesData = <<RuleInvalidSingle>>) =>
            \A n \in 2..i :
                ~(IsInvalidSingle(segments[n]) /\ ~IsSeparator(segments[n - 1])))

\* an invalid single was merged into the token before it, while the invalid
\* single that is the first token was left
C18_Witness ==
    /\ pc = "rules"
    /\ rulesData = <<RuleInvalidSingle>>
    /\ i >= 1
    /\ IsInvalidSingle(segments[1])
    /\ Len(segments) < Len(RawSegments)

\* C19: in every cluster of normalize(x) the attached units are in
\* non-decreasing order of rank (non-Ro subscript, stray coeng, Ro subscript,
\* register, dep-vowel, sign); and, the clusters of normalize(x) being those
\* of x (after the zero-width strip and the composite fix), the first element
\* of each is unchanged and the units of one rank are in their input order.
C19_ClusterUnitsSorted ==
    pc = "normalized" =>
        LET cin == Clusters(FixComposites(StripZW(text)))
            cout == Clusters(norm)
        IN  /\ \A k \in 1..Len(cout) :
                  \A n \in 2..(Len(cout[k].parts) - 1) :
                      UnitRank(cout[k].parts[n]) <= UnitRank(cout[k].parts[n + 1])
            /\ Len(cout) = Len(cin) =>
                  \A k \in 1..Len(cout) :
                      /\ Head(cout[k].parts) = Head(cin[k].parts)
                      /\ \A r \in 1..6 :
                            SelectSeq(Tail(cout[k].parts), LAMBDA u : UnitRank(u) = r)
                            = SelectSeq(Tail(cin[k].parts), LAMBDA u : UnitRank(u) = r)

\* C20: in the DP table of a call, every entry whose prev is a reachable
\* position p that follows a coeng or holds a dep-vowel is the entry of
\* p + 1, at the cost of p plus unknownCost + 50; and every raw token that
\* starts at such a position has length 1.
C20_ForcedRepairSingleStep ==
    (pc \in {"rules", "done", "annotated"} /\ norm # <<>>) =>
        /\ \A p \in 0..(Len(norm) - 1) :
              (dp[p + 1].cost < InfCost /\ Stranded(norm, p)) =>
                  \A j \in 1..Len(norm) :
                      dp[j + 1].prev = p =>
                          /\ j = p + 1
                          /\ dp[j + 1].cost = dp[p + 1].cost + unknownCost + 50000
        /\ LET raw == RawSegments
           IN  \A k \in 1..Len(raw) :
                  Stranded(norm, Len(Join(SubSeq(raw, 1, k - 1)))) => Len(raw[k]) = 1

\* a raw token of length 1 at a dep-vowel where a dictionary word begins
C20_Witness ==
    /\ pc = "done" /\ disablePP
    /\ \E k \in 1..Len(out) :
          /\ Stranded(norm, RawStart(k))
          /\ Len(out[k]) = 1
          /\ RawStart(k) + 2 <= Len(norm)
          /\ Slice(norm, RawStart(k), RawStart(k) + 2) \in words

\* C21: the compiled rules are in descending priority, rules of equal
\* priority in the order of rulesData; and every iteration of applyRules
\* applies the action of the first rule of that list whose trigger matches,
\* whose checks pass and whose action is applicable, and of no other rule:
\* when no rule fires it changes nothing and advances.
C21_FirstFiringRuleApplied ==
    /\ [](\A a \in 1..Len(rules) : \A b \in (a + 1)..Len(rules) :
            /\ rules[a].priority >= rules[b].priority
            /\ rules[a].priority = rules[b].priority
                  => RulePos(rules[a]) < RulePos(rules[b]))
    /\ [][(pc = "rules" /\ pc' = "rules") =>
            LET firing == {k \in 1..Len(rules) : RuleFires(rules[k], segments, i)}
            IN  IF firing = {}
                THEN segments' = segments /\ i' = i + 1
                ELSE \E k \in firing :
                        /\ \A j \in firing : k <= j
                        /\ LET r == ActionResult(rules[k].action, segments, i)
                           IN  segments' = r.segments /\ i' = r.i]_vars

\* a dot that the keep rule (priority 10) left alone although the merge_next
\* rule (priority 0, earlier in rulesData) fires at it too
C21_Witness ==
    /\ pc = "rules"
    /\ rulesData = <<RuleDotNext, RuleKeepDot, RuleLatinPrev>>
    /\ i = 2
    /\ segments = RawSegments
    /\ Len(segments) = 3
    /\ segments[2] = <<DOT>>
    /\ RuleFires(RuleDotNext, segments, 1)
    /\ RuleFires(RuleKeepDot, segments, 1)

\* C22: an iteration of applyRules that applies a merge shortens the token
\* list by one: the tokens at two adjacent indices m, m + 1 (m = i for
\* merge_next, m = i - 1 for merge_prev) are replaced by their concatenation
\* in that order, every other token is unchanged, and the loop index is then
\* m, inside the list, so the next iteration evaluates the merged token; an
\* iteration that applies no merge leaves the list as it is.
C22_MergeJoinsTwoAdjacentTokens ==
    [][(pc = "rules" /\ pc' = "rules") =>
          LET firing == {k \in 1..Len(rules) : RuleFires(rules[k], segments, i)}
              action == IF firing = {} THEN "none" ELSE rules[MinOf(firing)].action
              m == IF action = "merge_next" THEN i ELSE i - 1
          IN  IF action \in {"merge_next", "merge_prev"}
              THEN /\ m >= 0
                   /\ Len(segments') = Len(segments) - 1
                   /\ segments'[m + 1] = segments[m + 1] \o segments[m + 2]
                   /\ \A n \in 1..m : segments'[n] = segments[n]
                   /\ \A n \in (m + 2)..Len(segments') : segments'[n] = segments[n + 1]
                   /\ i' = m
                   /\ i' < Len(segments')
              ELSE segments' = segments]_vars

\* two different adjacent raw tokens were merged into the token at i, the
\* other tokens are the raw ones, and a rule fires at the merged token again
C22_Witness ==
    /\ pc = "rules"
    /\ Len(segments) = Len(RawSegments) - 1
    /\ Len(segments) >= 2
    /\ i < Len(segments)
    /\ segments[i + 1] = RawSegments[i + 1] \o RawSegments[i + 2]
    /\ RawSegments[i + 1] # RawSegments[i + 2]
    /\ \A n \in 1..i : segments[n] = RawSegments[n]
    /\ \A n \in (i + 2)..Len(segments) : segments[n] = RawSegments[n + 1]
    /\ \E k \in 1..Len(rules) : RuleFires(rules[k], segments, i)

\* C23: at every visited index, a check whose target resolves to no segment
\* passes exactly when it has neither exists = true nor a check kind nor a
\* value (true or false).
C23_NullTargetCheckFails ==
    (pc = "rules" /\ i < Len(segments)) =>
        \A k \in 1..Len(rules) : \A n \in 1..Len(rules[k].checks) :
            LET c == rules[k].checks[n]
            IN  ~HasTarget(c, segments, i) =>
                    (CheckPasses(c, segments, i)
                        <=> (~c.exists /\ c.check = "none" /\ c.value = "none"))

\* C24: with frequency data, T being the sum of the effective counts of all
\* entries of the cost table (words and the variants that inherit a count),
\* defaultCost is -log10(5 / T) and the cost of every entry is
\* -log10(eff / T).
C24_TotalSumsAllEntries ==
    (pc = "idle" /\ frequencyData # <<>>) =>
        LET T == SumOf(EffectiveCounts)
        IN  /\ DOMAIN wordCosts = DOMAIN EffectiveCounts
            /\ defaultCost = NegLog10(5, T)
            /\ \A w \in DOMAIN wordCosts :
                  wordCosts[w] = NegLog10(EffectiveCounts[w], T)

\* C25 as stated: once the dictionary is loaded, every variant the generator
\* produces for a word of the dictionary is in the dictionary.
C25_VariantsInDictionary ==
    pc \in {"dictionary", "idle"} =>
        \A w \in words : GenerateVariants(w) \subseteq words

\* C25 amended: once the dictionary is loaded, for every line whose word is in
\* the dictionary, every variant the generator produces for that word is in
\* the dictionary, unless the variant contains U+17AC (the compound filter
\* may have removed it).
C25_LineVariantsInDictionary ==
    pc \in {"dictionary", "idle"} =>
        \A k \in 1..Len(dictionaryContent) :
            LineWord(k) \in words =>
                \A v \in GenerateVariants(LineWord(k)) :
                    v \in words \/ \E n \in 1..Len(v) : v[n] = OR_LETTER

\* a line whose word has three variants, all in the dictionary, among lines
\* that the loader rejected
C25_Witness ==
    /\ pc = "idle"
    /\ \E k \in 1..Len(dictionaryContent) :
          /\ LineWord(k) \in words
          /\ Cardinality(GenerateVariants(LineWord(k))) = 3
          /\ GenerateVariants(LineWord(k)) \subseteq words
    /\ \E k \in 1..Len(dictionaryContent) :
          LineWord(k) # <<>> /\ LineWord(k) \notin words

\* C26: once the dictionary is loaded, no word of the word set contains
\* U+17D7, none begins with U+17D2 (none is empty), and every word of length 1
\* is a base character U+1780..U+17B3.
C26_NoRejectedEntries ==
    pc \in {"dictionary", "idle"} =>
        \A w \in words :
            /\ w # <<>>
            /\ \A k \in 1..Len(w) : w[k] # 6103
            /\ w[1] # 6098
            /\ Len(w) = 1 => (w[1] >= 6016 /\ w[1] <= 6067)

\* a dictionary that kept the word of one line and lost the words of a line
\* with U+17D7 and of a line beginning with U+17D2
C26_Witness ==
    /\ pc = "idle"
    /\ words # {}
    /\ \E k \in 1..Len(dictionaryContent) : LineWord(k) \in words
    /\ \E k \in 1..Len(dictionaryContent) :
          /\ Len(LineWord(k)) >= 2
          /\ \E n \in 1..Len(LineWord(k)) : LineWord(k)[n] = 6103
          /\ LineWord(k) \notin words
    /\ \E k \in 1..Len(dictionaryContent) :
          /\ Len(LineWord(k)) >= 2
          /\ LineWord(k)[1] = 6098
          /\ LineWord(k) \notin words

\* C27: normalize(x) has the length of x after the zero-width strip and the
\* composite fix; every cluster the loop cuts from that text occupies the same
\* index range in the output, begins with the same first part and holds a
\* permutation of its other units; and every character that is not Khmer
\* script is at the same index in the output.
C27_NormalizeReordersWithinClusters ==
    pc = "normalized" =>
        LET pre == FixComposites(StripZW(text))
            cs == Clusters(pre)
        IN  /\ Len(norm) = Len(pre)
            /\ \A k \in 1..Len(cs) :
                  LET parts == cs[k].parts
                      s == ClusterOffset(cs, k)
                      m == Len(parts) - 1
                  IN  \E p \in Permutations(1..m) :
                          Slice(norm, s, s + Len(Join(parts)))
                              = Head(parts) \o Join([n \in 1..m |-> parts[1 + p[n]]])
            /\ \A j \in 1..Len(pre) :
                  GetCharType(pre[j]) = "OTHER" => norm[j] = pre[j]

\* a text whose cluster was reordered, followed by a character that is not
\* Khmer script
C27_Witness ==
    /\ pc = "normalized"
    /\ norm # FixComposites(StripZW(text))
    /\ Len(Clusters(FixComposites(StripZW(text)))) >= 2
    /\ \E j \in 2..Len(norm) : GetCharType(norm[j]) = "OTHER"

\* C28: in every call, with or without post-processing, the tokens of the
\* backtrack (the list handed to applyRules, or returned as it is), the tokens
\* after every iteration of applyRules and the returned tokens are all
\* non-empty strings.
C28_TokensNonEmpty ==
    pc \in {"rules", "done", "annotated"} =>
        /\ \A k \in 1..Len(segments) : Len(segments[k]) >= 1
        /\ \A k \in 1..Len(out) : Len(out[k]) >= 1

\* a call with post-processing in which a rule merged tokens and the grouper
\* then joined unknown tokens
C28_Witness ==
    /\ pc = "done" /\ ~disablePP
    /\ Len(segments) < Len(RawSegments)
    /\ Len(out) < Len(segments)
    /\ Join(out) = norm

\* C29: a 'segment' message the worker receives while its segmenter is built
\* is answered exactly once, by a 'result' or an 'error' with the same id:
\* no answer while its handler runs, one answer from the handler's end on,
\* and the handler does end; a 'segment' message received while the segmenter
\* is null (before 'ready', or after init failed), or not yet received, has no
\* answer; every answer the worker posts belongs to a message it received
\* with the segmenter built.
C29_SegmentAnsweredOnceIffBuilt ==
    /\ [](\A k \in 1..Len(received) :
            received[k].msg.type = "segment" =>
                Answers(received[k].msg.id) =
                    IF received[k].built
                       /\ ~(k = Len(received) /\ ~WorkerBetweenHandlers)
                    THEN 1 ELSE 0)
    /\ [](\A k \in 1..Len(inbox) : Answers(inbox[k].id) = 0)
    /\ [](\A n \in 1..Len(posted) :
            posted[n].id >= 0 =>
                /\ posted[n].type \in {"result", "error"}
                /\ ReceivedWith(posted[n].id, TRUE))
    /\ \A id \in 0..(MaxRequests - 1) :
            [](ReceivedWith(id, TRUE) => <>(Answers(id) = 1))

\* a message dropped before 'ready' stays unanswered, a later one is answered
\* with a 'result' and one whose text is no string with an 'error'
C29_Witness ==
    /\ pc = "idle"
    /\ inbox = <<>>
    /\ ReceivedWith(0, FALSE) /\ Answers(0) = 0
    /\ ReceivedWith(1, TRUE) /\ received[2].msg.text # <<>>
    /\ ReceivedWith(2, TRUE)
    /\ posted = <<WorkerMessage("ready", -1), WorkerMessage("result", 1),
                  WorkerMessage("error", 2)>>

\* C30: once a push has been made (the stack is never empty afterwards), the
\* stack holds at most maxSize = 50 states and 0 <= currentIndex <=
\* stack.length - 1; before it, undo and redo leave the empty stack and
\* currentIndex = -1; after a push that stores a new state (one whose html
\* differs from the current entry's), that state is the last entry and the
\* current one, and the entries before it are entries the stack held up to
\* the former currentIndex: no redo entry survives.
C30_HistoryBoundedPushIsLast ==
    /\ Len(stack) <= maxSize
    /\ stack # <<>> => (0 <= currentIndex /\ currentIndex <= Len(stack) - 1)
    /\ stack = <<>> => (currentIndex = -1 /\ lastOp.op # "push")
    /\ (/\ lastOp.op = "push"
        /\ ~IdenticalToCurrent(lastOp.stack, lastOp.currentIndex, lastOp.state))
        => LET kept == SubSeq(lastOp.stack, 1, lastOp.currentIndex + 1)
               before == SubSeq(stack, 1, Len(stack) - 1)
           IN  /\ stack # <<>>
               /\ stack[Len(stack)] = lastOp.state
               /\ currentIndex = Len(stack) - 1
               /\ Len(before) <= Len(kept)
               /\ before = SubSeq(kept, Len(kept) - Len(before) + 1, Len(kept))

\* a push stores a new state on a full stack whose current entry is not the
\* last: the redo entries go and the stack gets shorter
C30_Witness ==
    /\ lastOp.op = "push"
    /\ Len(lastOp.stack) = maxSize
    /\ lastOp.currentIndex < maxSize - 2
    /\ lastOp.currentIndex > 0
    /\ ~IdenticalToCurrent(lastOp.stack, lastOp.currentIndex, lastOp.state)
    /\ Len(stack) = lastOp.currentIndex + 2

====
